---- MODULE Spec2Model ----
(***************************************************************************)
(* A model of the command pipeline of my-mcp-server: the agent's REPL      *)
(* (src/agent.py: extract_json_objects, interpret_intent, validate_args,   *)
(* call_mcp, run_agent) and the tool endpoint it talks to                  *)
(* (src/k8s-mcp.py: the tool registry, the listing and mutating tools and  *)
(* POST /run).                                                             *)
(*                                                                         *)
(* JSON values are tagged records: a string is [t |-> "str", s |-> "abc"], *)
(* a number keeps its digits [t |-> "num", s |-> "3"], null is             *)
(* [t |-> "null"], an object is [t |-> "obj", m |-> <<...>>] with its      *)
(* members as <<key, value>> pairs, a list is [t |-> "list", l |-> <<...>>].*)
(***************************************************************************)
EXTENDS Integers, Sequences, FiniteSets, TLC

VARIABLES
    (* extract_json_objects *)
    text,         \* the characters of the text being scanned (after fence removal)
    rawText,      \* the generator's output, before fence removal
    segs,         \* how rawText was put together (the fragments, in order)
    i,            \* scan position (1-based; Len(text)+1 when the scan is over)
    brace_level,  \* the depth counter
    start,        \* start offset of the current top-level object, 0 for None
    objs,         \* the objects extracted so far
    (* interpret_intent *)
    raw,          \* the extracted objects as parsed (before normalization)
    extracted,    \* the same objects, normalized in place as the loop reaches them
    k,            \* number of extracted objects the loop has processed
    commands,     \* the commands interpret_intent returns
    renorm,       \* the result of running the loop again over `commands`
    (* run_agent *)
    pc,           \* where the REPL is
    idx,          \* index of the command being handled within the turn
    validation,   \* validate_args' result for commands[idx]
    obtained,     \* the listing answers validate_args got for commands[idx]
    inflight,     \* the command POSTed to /run and not yet answered, or <<>>
    result,       \* call_mcp's last return value
    log,          \* the turn's events, in order
    live,         \* the cluster API requests the listing tools made for validate_args
                  \* during the turn, in order
    (* tool endpoint *)
    cluster,      \* the cluster: namespaces and the names in each
    _CACHE,       \* the name cache: per key, <<>> or <<timestamp, names>>
    now,          \* time.time(), in seconds
    served,       \* what the last list_*_cached call did
    (* conversation memory *)
    CONVERSATION_HISTORY,  \* the deque of turns
    appended,     \* every turn update_history was called with, in order
    (* ask_llm *)
    agent,        \* which agent's ask_llm runs
    attempt,      \* the loop variable of ask_llm
    wire,         \* the requests ask_llm sent and the sleeps it made, in order
    llm_ret,      \* what ask_llm did in the end: pending, returned a value, or raised
    (* pretty_print *)
    printed,      \* what pretty_print did with `result`: the text it returned, or raised
    (* server.py and its tools *)
    call,         \* the last request to the server: what it found, did and answered
    external      \* whether the cluster was changed by anything but the server's tools

vars == <<text, rawText, segs, i, brace_level, start, objs,
          raw, extracted, k, commands, renorm,
          pc, idx, validation, obtained, inflight, result, log, live, cluster,
          _CACHE, now, served, CONVERSATION_HISTORY, appended,
          agent, attempt, wire, llm_ret, printed, call, external>>

extractVars == <<text, rawText, segs, i, brace_level, start, objs>>
intentVars == <<raw, extracted, k, commands, renorm>>
replVars == <<pc, idx, validation, obtained, inflight, result, log, live>>
cacheVars == <<_CACHE, now, served>>
historyVars == <<CONVERSATION_HISTORY, appended>>
llmVars == <<agent, attempt, wire, llm_ret>>
printVars == <<printed>>
serverVars == <<call, external>>
restVars == <<cacheVars, historyVars, llmVars, printVars, serverVars>>

----------------------------------------------------------------------------
(* JSON values *)

Str(s) == [t |-> "str", s |-> s]
Num(d) == [t |-> "num", s |-> d]
Null == [t |-> "null"]
\* An object keeps its members as <<key, value>> pairs in insertion order, as a
\* Python dict does.
Obj(m) == [t |-> "obj", m |-> m]
List(l) == [t |-> "list", l |-> l]

IsDict(v) == v.t = "obj"
IsHashable(v) == v.t \notin {"obj", "list"}

\* Python's truth value of a JSON value (`not data["args"]["namespace"]`,
\* `target_name and ...`).
Truthy(v) ==
    CASE v.t = "str" -> v.s /= ""
      [] v.t = "num" -> v.s /= "0"
      [] v.t = "null" -> FALSE
      [] v.t = "obj" -> Len(v.m) > 0
      [] v.t = "list" -> Len(v.l) > 0
      [] OTHER -> TRUE

\* How an f-string renders a JSON value.
Fmt(v) ==
    CASE v.t = "str" -> v.s
      [] v.t = "num" -> v.s
      [] v.t = "null" -> "None"
      [] OTHER -> "<object>"

\* dict operations on the member pairs m: keys(), `key in m`, m[key], m.get(key),
\* m[key] = v (a new key goes last, an old key keeps its place), m.pop(key, None).
Keys(m) == [n \in 1..Len(m) |-> m[n][1]]
Has(m, key) == \E n \in 1..Len(m) : m[n][1] = key
Get(m, key) == m[CHOOSE n \in 1..Len(m) : m[n][1] = key][2]
GetOr(m, key, dflt) == IF Has(m, key) THEN Get(m, key) ELSE dflt
MapSet(m, key, v) ==
    IF Has(m, key)
    THEN [n \in 1..Len(m) |-> IF m[n][1] = key THEN <<key, v>> ELSE m[n]]
    ELSE Append(m, <<key, v>>)
MapPop(m, key) == SelectSeq(m, LAMBDA p : p[1] /= key)

\* Python's `v in s` for a list s.
InList(v, s) == \E n \in 1..Len(s) : s[n] = v
Range(s) == {s[n] : n \in 1..Len(s)}

\* An assignment `x = e` followed by the statements F that read x: e is
\* evaluated once, before F.
Bind(e, F(_)) == CHOOSE y \in {F(x) : x \in {e}} : TRUE

----------------------------------------------------------------------------
(* The tool registry the agent loads from GET /tools: each tool's signature  *)
(* is the tool function's annotations, parameter names in declaration order  *)
(* and then "return" when the function annotates its result.  The type tags  *)
(* are never read by the agent and are left out.                             *)

TOOLS_INFO ==
    [ apply_yaml |-> [signature |-> <<"yaml_content", "yaml_path", "filename", "return">>],
      delete_namespace |-> [signature |-> <<"namespace", "return">>],
      delete_deployment |-> [signature |-> <<"name", "namespace", "return">>],
      delete_pod |-> [signature |-> <<"name", "namespace", "return">>],
      delete_service |-> [signature |-> <<"name", "namespace", "return">>],
      list_nodes |-> [signature |-> <<>>],
      list_pods |-> [signature |-> <<"namespace">>],
      list_services |-> [signature |-> <<"namespace">>],
      list_service_endpoints |-> [signature |-> <<"namespace">>],
      list_pods_with_logs |-> [signature |-> <<"namespace">>],
      restart_deployment |-> [signature |-> <<"deployment_name", "namespace">>],
      scale_deployment |-> [signature |-> <<"deployment_name", "replicas", "namespace">>],
      list_deployments |-> [signature |-> <<"namespace">>],
      create_namespace |-> [signature |-> <<"name">>],
      create_deployment |-> [signature |-> <<"namespace", "name", "image", "replicas", "port">>],
      list_namespaces |-> [signature |-> <<>>],
      create_service |-> [signature |-> <<"namespace", "name", "deployment_name", "port",
                                          "target_port", "type", "node_port">>],
      create_autoscaler |-> [signature |-> <<"namespace", "deployment_name", "min_replicas",
                                             "max_replicas", "cpu_percent">>] ]

ToolNames == DOMAIN TOOLS_INFO

\* `tool in TOOLS_INFO` for a JSON value: the registry's keys are strings.
IsKnownTool(tool) == tool.t = "str" /\ tool.s \in ToolNames

\* info.get("signature", {}) of TOOLS_INFO.get(tool_name, {}).
SignatureOf(tool) == IF IsKnownTool(tool) THEN TOOLS_INFO[tool.s].signature ELSE <<>>

tool_requires_namespace(tool) == InList("namespace", SignatureOf(tool))

----------------------------------------------------------------------------
(* interpret_intent: the loop over the extracted objects.                    *)

\* Two faulty variants of the loop body, against which the normalization
\* properties are tested.  The first starts the args over when it defaults the
\* namespace; the second drops a namespace that is given and adds one that is
\* not, whatever the tool declares.
NormalizeDataResettingArgs(d) ==
    IF ~ IsDict(d) \/ ~ Has(d.m, "tool")
    THEN [data |-> d, out |-> "skip"]
    ELSE LET m1 == IF ~ Has(d.m, "args") \/ ~ IsDict(Get(d.m, "args"))
                   THEN MapSet(d.m, "args", Obj(<<>>))
                   ELSE d.m
             tool == Get(m1, "tool")
             args == Get(m1, "args").m
             args2 == IF tool_requires_namespace(tool)
                      THEN IF ~ Has(args, "namespace") \/ ~ Truthy(Get(args, "namespace"))
                           THEN << <<"namespace", Str("default")>> >>
                           ELSE args
                      ELSE MapPop(args, "namespace")
         IN  IF ~ IsHashable(tool)
             THEN [data |-> Obj(m1), out |-> "raise"]
             ELSE [data |-> Obj(MapSet(m1, "args", Obj(args2))),
                   out |-> IF IsKnownTool(tool) THEN "append" ELSE "ignore"]

NormalizeDataToggling(d) ==
    IF ~ IsDict(d) \/ ~ Has(d.m, "tool")
    THEN [data |-> d, out |-> "skip"]
    ELSE LET m1 == IF ~ Has(d.m, "args") \/ ~ IsDict(Get(d.m, "args"))
                   THEN MapSet(d.m, "args", Obj(<<>>))
                   ELSE d.m
             tool == Get(m1, "tool")
             args == Get(m1, "args").m
             args2 == IF ~ Has(args, "namespace")
                      THEN MapSet(args, "namespace", Str("default"))
                      ELSE MapPop(args, "namespace")
         IN  IF ~ IsHashable(tool)
             THEN [data |-> Obj(m1), out |-> "raise"]
             ELSE [data |-> Obj(MapSet(m1, "args", Obj(args2))),
                   out |-> IF IsKnownTool(tool) THEN "append" ELSE "ignore"]

\* A faulty variant of the loop body, against which the filtering property is
\* tested: it appends the object whatever tool it names.
NormalizeDataKeepingUnknown(d) ==
    IF ~ IsDict(d) \/ ~ Has(d.m, "tool")
    THEN [data |-> d, out |-> "skip"]
    ELSE LET m1 == IF ~ Has(d.m, "args") \/ ~ IsDict(Get(d.m, "args"))
                   THEN MapSet(d.m, "args", Obj(<<>>))
                   ELSE d.m
             tool == Get(m1, "tool")
             args == Get(m1, "args").m
             args2 == IF tool_requires_namespace(tool)
                      THEN IF ~ Has(args, "namespace") \/ ~ Truthy(Get(args, "namespace"))
                           THEN MapSet(args, "namespace", Str("default"))
                           ELSE args
                      ELSE MapPop(args, "namespace")
         IN  IF ~ IsHashable(tool)
             THEN [data |-> Obj(m1), out |-> "raise"]
             ELSE [data |-> Obj(MapSet(m1, "args", Obj(args2))), out |-> "append"]

\* The body of the loop for one extracted object d.  The object is changed in
\* place; `out` says what the loop did with it: "skip" (the `continue`),
\* "append" (a command), "ignore" (an unknown tool) or "raise" (the registry
\* lookup of an unhashable tool value raises TypeError, which nothing catches).
NormalizeData(d) ==
    IF ~ IsDict(d) \/ ~ Has(d.m, "tool")
    THEN [data |-> d, out |-> "skip"]
    ELSE LET m1 == IF ~ Has(d.m, "args") \/ ~ IsDict(Get(d.m, "args"))
                   THEN MapSet(d.m, "args", Obj(<<>>))
                   ELSE d.m
             tool == Get(m1, "tool")
             args == Get(m1, "args").m
             args2 == IF tool_requires_namespace(tool)
                      THEN IF ~ Has(args, "namespace") \/ ~ Truthy(Get(args, "namespace"))
                           THEN MapSet(args, "namespace", Str("default"))
                           ELSE args
                      ELSE MapPop(args, "namespace")
         IN  IF ~ IsHashable(tool)
             THEN [data |-> Obj(m1), out |-> "raise"]
             ELSE [data |-> Obj(MapSet(m1, "args", Obj(args2))),
                   out |-> IF IsKnownTool(tool) THEN "append" ELSE "ignore"]

----------------------------------------------------------------------------
(* The tool endpoint: the cluster, the registered tools and POST /run.       *)
(* The cluster holds the namespaces and, per namespace, the names of its     *)
(* deployments, pods and services; the cluster API lists names in name       *)
(* order.  The validators read these lists through a 30s cache, taken here   *)
(* as holding the cluster's current lists.                                    *)

NsUniverse == {"default", "prod"}
ApiOrder == <<"cicd", "default", "nginx", "prod", "prod2", "web", "web-1">>
ListOf(S) == SelectSeq(ApiOrder, LAMBDA n : n \in S)

RECURSIVE Join(_)
\* ', '.join(names)
Join(names) ==
    IF names = <<>> THEN ""
    ELSE IF Len(names) = 1 THEN names[1]
    ELSE names[1] \o ", " \o Join(Tail(names))

invalid_response(msg, suggestion_list) ==
    Obj(<< <<"error", Str(msg)>>,
           <<"suggestion", Str(IF suggestion_list /= <<>>
                               THEN "Try one of: " \o Join(suggestion_list)
                               ELSE "")>> >>)

\* `name in names` for an argument value: the lists hold strings.
NameIn(v, S) == v.t = "str" /\ v.s \in S

\* The names of a kind in the namespace an argument value names.
NamesIn(byNs, nsv) == IF NameIn(nsv, DOMAIN byNs) THEN byNs[nsv.s] ELSE {}

\* The validators return None (here Null) or an invalid_response.
validate_namespace(cl, namespace) ==
    IF ~ Truthy(namespace) THEN invalid_response("Missing namespace argument.", <<>>)
    ELSE IF ~ NameIn(namespace, cl.ns)
    THEN invalid_response("Namespace '" \o Fmt(namespace) \o "' does not exist.", ListOf(cl.ns))
    ELSE Null

validate_resource(cl, byNs, kind, missing, namespace, name) ==
    IF ~ Truthy(namespace) THEN invalid_response("Missing namespace argument.", <<>>)
    ELSE IF ~ Truthy(name) THEN invalid_response(missing, <<>>)
    ELSE IF ~ NameIn(namespace, cl.ns)
    THEN invalid_response("Namespace '" \o Fmt(namespace) \o "' does not exist.", ListOf(cl.ns))
    ELSE IF ~ NameIn(name, NamesIn(byNs, namespace))
    THEN invalid_response(kind \o " '" \o Fmt(name) \o "' not found in namespace '"
                            \o Fmt(namespace) \o "'.", ListOf(NamesIn(byNs, namespace)))
    ELSE Null

validate_deployment(cl, namespace, name) ==
    validate_resource(cl, cl.deps, "Deployment", "Missing deployment_name argument.",
                      namespace, name)
validate_pod(cl, namespace, name) ==
    validate_resource(cl, cl.pods, "Pod", "Missing pod name argument.", namespace, name)
validate_service(cl, namespace, name) ==
    validate_resource(cl, cl.svcs, "Service", "Missing service name argument.",
                      namespace, name)

\* The body of a listing tool: one object per name, each with its "name".
Listing(names, extra) ==
    List([n \in 1..Len(names) |-> Obj(<< <<"name", Str(names[n])>> >> \o extra)])

Success(msg) == Obj(<< <<"status", Str("success")>>, <<"message", Str(msg)>> >>)
ApiError == Obj(<< <<"status", Str("error")>>, <<"message", Str("(500) Reason: ...")>> >>)

\* The parameters each tool function declares with a default value.
Defaulted ==
    [ apply_yaml |-> {"yaml_content", "yaml_path", "filename"},
      delete_namespace |-> {},
      delete_deployment |-> {"namespace"},
      delete_pod |-> {"namespace"},
      delete_service |-> {"namespace"},
      list_nodes |-> {},
      list_pods |-> {"namespace"},
      list_services |-> {"namespace"},
      list_service_endpoints |-> {"namespace"},
      list_pods_with_logs |-> {"namespace"},
      restart_deployment |-> {"namespace"},
      scale_deployment |-> {"namespace"},
      list_deployments |-> {"namespace"},
      create_namespace |-> {},
      create_deployment |-> {"replicas", "port"},
      list_namespaces |-> {},
      create_service |-> {"target_port", "type", "node_port"},
      create_autoscaler |-> {} ]

Params(tool) == Range(TOOLS_INFO[tool].signature) \ {"return"}

\* Whether tool(**args) binds: no keyword the function lacks, no parameter
\* without a default left out.  Otherwise Python raises TypeError.
Binds(tool, args) ==
    /\ Range(Keys(args)) \subseteq Params(tool)
    /\ Params(tool) \ Defaulted[tool] \subseteq Range(Keys(args))

\* int(replicas) succeeds on these values.
IntLits == {"-1", "0", "1", "2", "3", "4"}
IsInt(v) == v.t \in {"num", "str"} /\ v.s \in IntLits

\* A tool's run on the cluster cl: what it returns (body), the cluster after it,
\* and whether it raised.  apiOk is whether the cluster API answers the tool's
\* own request; the tools that list let its exception out, the tools that
\* change the cluster catch ApiException and return a status "error".  `live`
\* names the list request a listing tool sends to the cluster API itself
\* (v1.list_namespace(), v1.list_namespaced_pod(namespace), ...), by the kind
\* and namespace it lists; the listing tools send it on every call.
Raised(cl) == [body |-> Null, cl |-> cl, raised |-> TRUE, live |-> <<>>]
Returned(body, cl) == [body |-> body, cl |-> cl, raised |-> FALSE, live |-> <<>>]
Queried(key, r) == [r EXCEPT !.live = <<key>>]

ListTool(cl, kind, byNs, namespace, apiOk) ==
    LET err == validate_namespace(cl, namespace)
    IN  IF err /= Null THEN Returned(err, cl)
        ELSE Queried(kind \o "::" \o namespace.s,
                     IF ~ apiOk THEN Raised(cl)
                     ELSE Returned(Listing(ListOf(byNs[namespace.s]),
                                           << <<"namespace", namespace>> >>), cl))

DeleteTool(cl, field, err, namespace, name, apiOk, msg) ==
    IF err /= Null THEN Returned(err, cl)
    ELSE IF ~ apiOk THEN Returned(ApiError, cl)
    ELSE Returned(Success(msg),
                  [cl EXCEPT ![field][namespace.s] = @ \ {name.s}])

RunTool(tool, args, cl, apiOk) ==
    LET namespace == GetOr(args, "namespace",
                           IF tool = "list_pods" THEN Null ELSE Str("default"))
    IN
    CASE tool = "list_nodes" ->
           Queried("nodes",
                   IF apiOk THEN Returned(Listing(<<"node-1">>, <<>>), cl) ELSE Raised(cl))
      [] tool = "list_namespaces" ->
           Queried("namespaces",
                   IF apiOk
                   THEN Returned(Listing(ListOf(cl.ns), << <<"status", Str("Active")>> >>), cl)
                   ELSE Raised(cl))
      [] tool = "list_pods" ->
           IF Truthy(namespace) THEN ListTool(cl, "pods", cl.pods, namespace, apiOk)
           ELSE Queried("pods",
                        IF ~ apiOk THEN Raised(cl)
                        ELSE Returned(Listing(ListOf(UNION {cl.pods[n] : n \in DOMAIN cl.pods}),
                                              <<>>), cl))
      [] tool = "list_deployments" -> ListTool(cl, "deployments", cl.deps, namespace, apiOk)
      [] tool = "list_services" -> ListTool(cl, "services", cl.svcs, namespace, apiOk)
      [] tool = "scale_deployment" ->
           LET err == validate_deployment(cl, namespace, Get(args, "deployment_name"))
               replicas == Get(args, "replicas")
           IN  IF err /= Null THEN Returned(err, cl)
               ELSE IF ~ IsInt(replicas)
               THEN Returned(invalid_response("Replicas must be an integer.", <<>>), cl)
               ELSE IF replicas.s = "-1"
               THEN Returned(invalid_response("Replicas must be >= 0.", <<>>), cl)
               ELSE IF ~ apiOk THEN Returned(ApiError, cl)
               ELSE Returned(Success("Deployment scaled."), cl)
      [] tool = "restart_deployment" ->
           LET err == validate_deployment(cl, namespace, Get(args, "deployment_name"))
           IN  IF err /= Null THEN Returned(err, cl)
               ELSE IF ~ apiOk THEN Returned(ApiError, cl)
               ELSE Returned(Success("Deployment restarted."), cl)
      [] tool = "delete_deployment" ->
           DeleteTool(cl, "deps", validate_deployment(cl, namespace, Get(args, "name")),
                      namespace, Get(args, "name"), apiOk, "Deployment deleted.")
      [] tool = "delete_pod" ->
           DeleteTool(cl, "pods", validate_pod(cl, namespace, Get(args, "name")),
                      namespace, Get(args, "name"), apiOk, "Pod deleted.")
      [] tool = "delete_service" ->
           DeleteTool(cl, "svcs", validate_service(cl, namespace, Get(args, "name")),
                      namespace, Get(args, "name"), apiOk, "Service deleted.")

\* POST /run: 400 for a tool the registry lacks, 500 when the tool raises (a
\* TypeError of the call itself included), otherwise 200 with the tool's result.
do_POST(payload, cl, apiOk) ==
    LET tool == Get(payload.m, "tool")
        args == Get(payload.m, "args")
    IN  IF ~ Truthy(tool) \/ ~ IsKnownTool(tool)
        THEN [code |-> 400, body |-> Obj(<< <<"error", Str("Tool not found")>> >>), cl |-> cl,
              live |-> <<>>]
        ELSE IF ~ IsDict(args) \/ ~ Binds(tool.s, args.m)
        THEN [code |-> 500, body |-> Obj(<< <<"error", Str("TypeError")>> >>), cl |-> cl,
              live |-> <<>>]
        ELSE Bind(RunTool(tool.s, args.m, cl, apiOk), LAMBDA r :
                  IF r.raised
                  THEN [code |-> 500, body |-> Obj(<< <<"error", Str("ApiException")>> >>),
                        cl |-> cl, live |-> r.live]
                  ELSE [code |-> 200, body |-> r.body, cl |-> r.cl, live |-> r.live])

----------------------------------------------------------------------------
(* The name cache (30s TTL) and the cached listings.  An entry is the pair   *)
(* <<timestamp, names>>; <<>> stands for a key the dict does not hold.       *)

_CACHE_TTL == 30

CacheNamespaces == {"default"}
CacheKeys ==
    {"namespaces"}
       \cup {kind \o "::" \o n : kind \in {"deployments", "pods", "services"},
                                 n \in CacheNamespaces}
EmptyCache == [key \in CacheKeys |-> <<>>]

\* A faulty variant of _cache_get, against which the TTL property is tested: it
\* returns whatever entry the key has, however old.
_cache_getAnyAge(cache, key, t) ==
    LET entry == cache[key]
    IN  IF entry = <<>> THEN [hit |-> FALSE, value |-> <<>>, cache |-> cache]
        ELSE [hit |-> TRUE, value |-> entry[2], cache |-> cache]

\* _cache_get at time t: whether it returns a value (hit) or None, the value,
\* and the cache it leaves (an entry older than the TTL is popped).
_cache_get(cache, key, t) ==
    LET entry == cache[key]
    IN  IF entry = <<>> THEN [hit |-> FALSE, value |-> <<>>, cache |-> cache]
        ELSE IF t - entry[1] > _CACHE_TTL
        THEN [hit |-> FALSE, value |-> <<>>, cache |-> [cache EXCEPT ![key] = <<>>]]
        ELSE [hit |-> TRUE, value |-> entry[2], cache |-> cache]

_cache_set(cache, key, value, t) == [cache EXCEPT ![key] = <<t, value>>]

\* What may become of the live part of a cached listing: the cluster answers,
\* the cluster API raises (caught: the listing returns []), or get_clients()
\* finds no cluster configuration (RuntimeError, raised outside the try).
LiveOutcomes == {"ok", "api_error", "no_config"}

\* The body the four list_*_cached functions share, for the key `key` and the
\* names `names` the cluster holds: the list returned, the cache afterwards,
\* the number of list requests sent to the cluster, and whether it raised.
list_cached(cache, key, names, t, outcome) ==
    Bind(_cache_get(cache, key, t), LAMBDA cached :
         IF cached.hit
         THEN [ret |-> cached.value, cache |-> cached.cache, hit |-> TRUE,
               queries |-> 0, raised |-> FALSE]
         ELSE IF outcome = "no_config"
         THEN [ret |-> <<>>, cache |-> cached.cache, hit |-> FALSE,
               queries |-> 0, raised |-> TRUE]
         ELSE IF outcome = "api_error"
         THEN [ret |-> <<>>, cache |-> cached.cache, hit |-> FALSE,
               queries |-> 1, raised |-> FALSE]
         ELSE [ret |-> names, cache |-> _cache_set(cached.cache, key, names, t),
               hit |-> FALSE, queries |-> 1, raised |-> FALSE])

\* The names the cluster API lists for a namespace given by name.
NamesOfNs(byNs, namespace) ==
    IF namespace \in DOMAIN byNs THEN ListOf(byNs[namespace]) ELSE <<>>

list_namespaces_cached(cache, cl, t, outcome) ==
    list_cached(cache, "namespaces", ListOf(cl.ns), t, outcome)
list_deployments_cached(cache, cl, namespace, t, outcome) ==
    list_cached(cache, "deployments::" \o namespace, NamesOfNs(cl.deps, namespace), t, outcome)
list_services_cached(cache, cl, namespace, t, outcome) ==
    list_cached(cache, "services::" \o namespace, NamesOfNs(cl.svcs, namespace), t, outcome)
list_pods_cached(cache, cl, namespace, t, outcome) ==
    list_cached(cache, "pods::" \o namespace, NamesOfNs(cl.pods, namespace), t, outcome)

----------------------------------------------------------------------------
(* call_mcp: POST the command to /run.  The outcome of the request is the    *)
(* environment's: "ok" (answered), "api_error" (answered, the cluster API    *)
(* refusing the tool's request), "unreachable" (never delivered) or          *)
(* "timeout" (delivered and run, the answer not received in 30s).            *)

Outcomes == {"ok", "api_error", "unreachable", "timeout"}

\* The listing requests validate_args may send; one that fails returns an
\* error object whatever the failure is.
ListCalls == {"ns", "pods", "deps", "svcs"}

call_mcp(command, cl, outcome) ==
    IF ~ Truthy(command)
    THEN [ret |-> Obj(<< <<"error", Str("Invalid command.")>> >>), cl |-> cl, live |-> <<>>]
    ELSE LET payload == Obj(<< <<"tool", GetOr(command.m, "tool", Null)>>,
                               <<"args", GetOr(command.m, "args", Obj(<<>>))>> >>)
         IN  IF outcome = "unreachable"
             THEN [ret |-> Obj(<< <<"error", Str("ConnectionError")>> >>), cl |-> cl,
                   live |-> <<>>]
             ELSE Bind(do_POST(payload, cl, outcome /= "api_error"), LAMBDA r :
                       IF outcome = "timeout"
                       THEN [ret |-> Obj(<< <<"error", Str("ReadTimeout")>> >>), cl |-> r.cl,
                             live |-> r.live]
                       ELSE IF r.code /= 200
                       THEN [ret |-> Obj(<< <<"error", Str("HTTPError")>> >>), cl |-> r.cl,
                             live |-> r.live]
                       ELSE [ret |-> r.body, cl |-> r.cl, live |-> r.live])

----------------------------------------------------------------------------
(* validate_args                                                             *)

\* The characters of the tool names and of the words validate_args looks for
\* in them.
Spell(s) ==
    CASE s = "apply_yaml" ->
           <<"a", "p", "p", "l", "y", "_", "y", "a", "m", "l">>
      [] s = "delete_namespace" ->
           <<"d", "e", "l", "e", "t", "e", "_", "n", "a", "m", "e", "s", "p", "a", "c", "e">>
      [] s = "delete_deployment" ->
           <<"d", "e", "l", "e", "t", "e", "_", "d", "e", "p", "l", "o", "y", "m", "e", "n", "t">>
      [] s = "delete_pod" ->
           <<"d", "e", "l", "e", "t", "e", "_", "p", "o", "d">>
      [] s = "delete_service" ->
           <<"d", "e", "l", "e", "t", "e", "_", "s", "e", "r", "v", "i", "c", "e">>
      [] s = "list_nodes" ->
           <<"l", "i", "s", "t", "_", "n", "o", "d", "e", "s">>
      [] s = "list_pods" ->
           <<"l", "i", "s", "t", "_", "p", "o", "d", "s">>
      [] s = "list_services" ->
           <<"l", "i", "s", "t", "_", "s", "e", "r", "v", "i", "c", "e", "s">>
      [] s = "list_service_endpoints" ->
           <<"l", "i", "s", "t", "_", "s", "e", "r", "v", "i", "c", "e", "_", "e", "n", "d", "p", "o", "i", "n", "t", "s">>
      [] s = "list_pods_with_logs" ->
           <<"l", "i", "s", "t", "_", "p", "o", "d", "s", "_", "w", "i", "t", "h", "_", "l", "o", "g", "s">>
      [] s = "restart_deployment" ->
           <<"r", "e", "s", "t", "a", "r", "t", "_", "d", "e", "p", "l", "o", "y", "m", "e", "n", "t">>
      [] s = "scale_deployment" ->
           <<"s", "c", "a", "l", "e", "_", "d", "e", "p", "l", "o", "y", "m", "e", "n", "t">>
      [] s = "list_deployments" ->
           <<"l", "i", "s", "t", "_", "d", "e", "p", "l", "o", "y", "m", "e", "n", "t", "s">>
      [] s = "create_namespace" ->
           <<"c", "r", "e", "a", "t", "e", "_", "n", "a", "m", "e", "s", "p", "a", "c", "e">>
      [] s = "create_deployment" ->
           <<"c", "r", "e", "a", "t", "e", "_", "d", "e", "p", "l", "o", "y", "m", "e", "n", "t">>
      [] s = "list_namespaces" ->
           <<"l", "i", "s", "t", "_", "n", "a", "m", "e", "s", "p", "a", "c", "e", "s">>
      [] s = "create_service" ->
           <<"c", "r", "e", "a", "t", "e", "_", "s", "e", "r", "v", "i", "c", "e">>
      [] s = "create_autoscaler" ->
           <<"c", "r", "e", "a", "t", "e", "_", "a", "u", "t", "o", "s", "c", "a", "l", "e", "r">>
      [] s = "pod" ->
           <<"p", "o", "d">>
      [] s = "pods" ->
           <<"p", "o", "d", "s">>
      [] s = "deployment" ->
           <<"d", "e", "p", "l", "o", "y", "m", "e", "n", "t">>
      [] s = "deployments" ->
           <<"d", "e", "p", "l", "o", "y", "m", "e", "n", "t", "s">>
      [] s = "service" ->
           <<"s", "e", "r", "v", "i", "c", "e">>
      [] s = "svc" ->
           <<"s", "v", "c">>
      [] s = "create" ->
           <<"c", "r", "e", "a", "t", "e">>

\* Python's `word in name` for strings.
Contains(word, name) ==
    LET w == Spell(word)
        n == Spell(name)
    IN  \E p \in 0..(Len(n) - Len(w)) : SubSeq(n, p + 1, p + Len(w)) = w

\* [n["name"] for n in resp if isinstance(n, dict)]: a list gives its
\* elements, a dict its keys (strings, none of them a dict); anything else
\* cannot be iterated, and an element without "name" raises KeyError.
NamesOf(resp) ==
    CASE resp.t = "list" ->
           Bind(SelectSeq(resp.l, IsDict), LAMBDA ds :
                IF \E n \in 1..Len(ds) : ~ Has(ds[n].m, "name")
                THEN [raised |-> TRUE, names |-> <<>>]
                ELSE [raised |-> FALSE,
                      names |-> [n \in 1..Len(ds) |-> Get(ds[n].m, "name")]])
      [] resp.t \in {"obj", "str"} -> [raised |-> FALSE, names |-> <<>>]
      [] OTHER -> [raised |-> TRUE, names |-> <<>>]

\* The files of the agent's host, and os.path.abspath on its paths.
ExistingFiles == {"/etc/app.yaml", "app.yaml"}
AbsPath(path) == IF path = "app.yaml" THEN "/work/app.yaml" ELSE path

\* `a or b` of two dict lookups: the first when it is truthy, else the second.
FirstOf(args, a, b) ==
    IF Has(args, a) /\ Truthy(Get(args, a)) THEN Get(args, a) ELSE GetOr(args, b, Null)

ListCommand(tool, args) == Obj(<< <<"tool", Str(tool)>>, <<"args", Obj(args)>> >>)

\* [n["name"] for n in call_mcp({"tool": tool, "args": args}) ...], and the
\* cluster API request the call caused.
ListedNames(tool, args, cl, outcome) ==
    Bind(call_mcp(ListCommand(tool, args), cl, outcome), LAMBDA r :
         Bind(NamesOf(r.ret), LAMBDA n :
              [raised |-> n.raised, names |-> n.names, live |-> r.live,
               errored |-> IsDict(r.ret) /\ Has(r.ret.m, "error")]))

\* A faulty variant of step 3, against which the namespace property is tested:
\* it lets the namespace pass when the listing gave no name at all.
NamespaceCheckFailOpen(args, cl, outcome) ==
    Bind(ListedNames("list_namespaces", <<>>, cl, outcome), LAMBDA valid_namespaces :
         LET asks == Has(args, "namespace")
             missing == /\ asks
                        /\ ~ valid_namespaces.raised
                        /\ valid_namespaces.names /= <<>>
                        /\ ~ InList(Get(args, "namespace"), valid_namespaces.names)
         IN  [asks |-> asks,
              names |-> valid_namespaces.names,
              live |-> valid_namespaces.live,
              errored |-> valid_namespaces.errored,
              errors |-> IF missing
                         THEN << "Namespace '" \o Fmt(Get(args, "namespace"))
                                 \o "' not found." >>
                         ELSE <<>>,
              suggestions |-> IF missing
                              THEN << <<"available_namespaces", valid_namespaces.names>> >>
                              ELSE <<>>])

\* Step 3, the namespace check: whether it asks for the namespace list, the
\* names the call returned, and the error and suggestion it adds.  An
\* exception on the way is swallowed and adds nothing.
NamespaceCheck(args, cl, outcome) ==
    Bind(ListedNames("list_namespaces", <<>>, cl, outcome), LAMBDA valid_namespaces :
         LET asks == Has(args, "namespace")
             missing == /\ asks
                        /\ ~ valid_namespaces.raised
                        /\ ~ InList(Get(args, "namespace"), valid_namespaces.names)
         IN  [asks |-> asks,
              names |-> valid_namespaces.names,
              live |-> valid_namespaces.live,
              errored |-> valid_namespaces.errored,
              errors |-> IF missing
                         THEN << "Namespace '" \o Fmt(Get(args, "namespace"))
                                 \o "' not found." >>
                         ELSE <<>>,
              suggestions |-> IF missing
                              THEN << <<"available_namespaces", valid_namespaces.names>> >>
                              ELSE <<>>])

\* A faulty variant of a resource check, against which the acceptance property
\* is tested: it lists the names of namespace "default" whatever the command's
\* namespace is.
ResourceCheckDefaultNs(tool_name, words, listTool, alias, label, sugKey, args, namespace, cl, outcome) ==
    Bind(ListedNames(listTool, << <<"namespace", Str("default")>> >>, cl, outcome), LAMBDA valid :
         LET applies == /\ \E w \in words : Contains(w, tool_name)
                        /\ ~ Contains("create", tool_name)
             target_name == FirstOf(args, "name", alias)
             missing == Truthy(target_name) /\ ~ InList(target_name, valid.names)
             found == applies /\ ~ valid.raised /\ missing
         IN  [applies |-> applies,
              raised |-> applies /\ valid.raised,
              names |-> valid.names,
              live |-> valid.live,
              errored |-> valid.errored,
              errors |-> IF found
                         THEN << label \o " '" \o Fmt(target_name) \o "' not found in '"
                                 \o Fmt(namespace) \o "'." >>
                         ELSE <<>>,
              suggestions |-> IF found THEN << <<sugKey, valid.names>> >> ELSE <<>>])

\* One of the three resource checks of step 4: whether it applies to the tool,
\* the names its listing call returned, and the error and suggestion it adds.
ResourceCheck(tool_name, words, listTool, alias, label, sugKey, args, namespace, cl, outcome) ==
    Bind(ListedNames(listTool, << <<"namespace", namespace>> >>, cl, outcome), LAMBDA valid :
         LET applies == /\ \E w \in words : Contains(w, tool_name)
                        /\ ~ Contains("create", tool_name)
             target_name == FirstOf(args, "name", alias)
             missing == Truthy(target_name) /\ ~ InList(target_name, valid.names)
             found == applies /\ ~ valid.raised /\ missing
         IN  [applies |-> applies,
              raised |-> applies /\ valid.raised,
              names |-> valid.names,
              live |-> valid.live,
              errored |-> valid.errored,
              errors |-> IF found
                         THEN << label \o " '" \o Fmt(target_name) \o "' not found in '"
                                 \o Fmt(namespace) \o "'." >>
                         ELSE <<>>,
              suggestions |-> IF found THEN << <<sugKey, valid.names>> >> ELSE <<>>])

\* validate_args on a command of the turn (a registered tool, an args dict).
\* oc gives the outcome of each listing request it may send.  Besides the
\* {"errors", "suggestions"} it returns, the record tells what it did on the
\* way: the command with a `file` argument rewritten, whether the file check
\* raised (TypeError of os.path.isfile on a value that is no path), the
\* listing tools it called, in order, the cluster API requests those calls
\* caused, the listing tools whose call came back as an error object, and the
\* names each call gave.
validate_args(command, cl, oc) ==
    LET tool_name == Get(command.m, "tool").s
        signature == SignatureOf(Get(command.m, "tool"))
    IN
    Bind(Get(command.m, "args").m, LAMBDA args :
    \* 3: namespace existence
    Bind(NamespaceCheck(args, cl, oc.ns), LAMBDA nsc :
    Bind(GetOr(args, "namespace", Str("default")), LAMBDA namespace :
    \* 4: resources; an exception in one check skips the checks after it
    Bind(ResourceCheck(tool_name, {"pod", "pods"}, "list_pods", "pod_name", "Pod",
                       "available_pods", args, namespace, cl, oc.pods), LAMBDA pod :
    Bind(ResourceCheck(tool_name, {"deployment", "deployments"}, "list_deployments",
                       "deployment_name", "Deployment", "available_deployments",
                       args, namespace, cl, oc.deps), LAMBDA dep :
    Bind(ResourceCheck(tool_name, {"service", "svc"}, "list_services", "service_name",
                       "Service", "available_services", args, namespace, cl, oc.svcs),
         LAMBDA svc :
    LET \* 1: invalid parameters
        unexpected == SelectSeq(Keys(args), LAMBDA a : ~ InList(a, signature))
        e1 == [n \in 1..Len(unexpected) |->
                  "Unexpected argument '" \o unexpected[n] \o "'."]
        s1 == IF unexpected /= <<>>
              THEN << <<"expected_args", [n \in 1..Len(signature) |-> Str(signature[n])]>> >>
              ELSE <<>>
        \* 2: missing parameters
        absent == SelectSeq(signature, LAMBDA q : q /= "return" /\ ~ Has(args, q))
        e2 == [n \in 1..Len(absent) |-> "Missing argument '" \o absent[n] \o "'."]
        depRuns == dep.applies /\ ~ pod.raised
        svcRuns == svc.applies /\ ~ pod.raised /\ ~ (depRuns /\ dep.raised)
        \* 5: file argument
        hasFile == Has(args, "file")
        file == GetOr(args, "file", Null)
        fileRaises == hasFile /\ file.t \notin {"str", "num"}
        fileOk == hasFile /\ file.t = "str" /\ file.s \in ExistingFiles
        e5 == IF hasFile /\ ~ fileRaises /\ ~ fileOk
              THEN << "File '" \o Fmt(file) \o "' not found or inaccessible." >>
              ELSE <<>>
        args5 == IF fileOk THEN MapSet(args, "file", Str(AbsPath(file.s))) ELSE args
    IN  [errors |-> e1 \o e2 \o nsc.errors \o pod.errors
                       \o (IF depRuns THEN dep.errors ELSE <<>>)
                       \o (IF svcRuns THEN svc.errors ELSE <<>>) \o e5,
         suggestions |-> s1 \o nsc.suggestions \o pod.suggestions
                            \o (IF depRuns THEN dep.suggestions ELSE <<>>)
                            \o (IF svcRuns THEN svc.suggestions ELSE <<>>),
         command |-> Obj(MapSet(command.m, "args", Obj(args5))),
         raised |-> fileRaises,
         queries |-> (IF nsc.asks THEN <<"list_namespaces">> ELSE <<>>)
                        \o (IF pod.applies THEN <<"list_pods">> ELSE <<>>)
                        \o (IF depRuns THEN <<"list_deployments">> ELSE <<>>)
                        \o (IF svcRuns THEN <<"list_services">> ELSE <<>>),
         live |-> (IF nsc.asks THEN nsc.live ELSE <<>>)
                     \o (IF pod.applies THEN pod.live ELSE <<>>)
                     \o (IF depRuns THEN dep.live ELSE <<>>)
                     \o (IF svcRuns THEN svc.live ELSE <<>>),
         errored |-> (IF nsc.asks /\ nsc.errored THEN {"list_namespaces"} ELSE {})
                        \cup (IF pod.applies /\ pod.errored THEN {"list_pods"} ELSE {})
                        \cup (IF depRuns /\ dep.errored THEN {"list_deployments"} ELSE {})
                        \cup (IF svcRuns /\ svc.errored THEN {"list_services"} ELSE {}),
         names |-> [list_namespaces |-> nsc.names,
                    list_pods |-> pod.names,
                    list_deployments |-> dep.names,
                    list_services |-> svc.names]]))))))

----------------------------------------------------------------------------
(* run_agent: the REPL.  A turn reads a line, has interpret_intent turn the  *)
(* generator's answer into commands, then validates and runs each command.   *)

\* What the generator's answer may hold once extract_json_objects has parsed
\* it: at most MaxCmds objects out of TurnObjects.
MaxCmds == 2

Cmd(tool, args) == Obj(<< <<"tool", Str(tool)>>, <<"args", Obj(args)>> >>)

TurnObjects ==
    { Cmd("scale_deployment", << <<"deployment_name", Str("nginx")>>,
                                 <<"replicas", Num("3")>>,
                                 <<"namespace", Str("default")>> >>),
      Cmd("scale_deployment", << <<"deployment_name", Str("nginx")>>,
                                 <<"namespace", Str("prod")>> >>),
      Cmd("restart_deployment", << <<"deployment_name", Str("cicd")>> >>),
      Cmd("delete_deployment", << <<"name", Str("nginx")>>,
                                  <<"namespace", Str("default")>>,
                                  <<"return", Null>> >>),
      Cmd("list_pods", << <<"namespace", Str("ghost")>> >>),
      Cmd("list_pods", << <<"namespace", Str("prod")>>, <<"file", Null>> >>),
      Cmd("list_nodes", << <<"namespace", Str("default")>> >>),
      Cmd("frobnicate", <<>>),
      Obj(<< <<"tool", List(<< Str("list_pods") >>)>>, <<"args", Obj(<<>>)>> >>) }

RECURSIVE SeqsUpTo(_, _)
\* The sequences of at most n elements of S.
SeqsUpTo(S, n) ==
    IF n = 0 THEN {<<>>}
    ELSE LET shorter == SeqsUpTo(S, n - 1)
         IN  shorter \cup {Append(q, x) : q \in shorter, x \in S}

TurnAnswers == SeqsUpTo(TurnObjects, MaxCmds)

InitCluster ==
    [ns |-> {"default", "prod"},
     deps |-> [n \in NsUniverse |-> IF n = "default" THEN {"nginx", "cicd"} ELSE {"nginx"}],
     pods |-> [n \in NsUniverse |-> IF n = "default" THEN {"web-1"} ELSE {}],
     svcs |-> [n \in NsUniverse |-> IF n = "default" THEN {"web"} ELSE {}]]

NoValidation == [errors |-> <<>>, suggestions |-> <<>>]
NoneObtained == [queries |-> <<>>, errored |-> {},
                 names |-> [list_namespaces |-> <<>>, list_pods |-> <<>>,
                            list_deployments |-> <<>>, list_services |-> <<>>]]

ExtractIdle ==
    /\ text = <<>> /\ rawText = <<>> /\ segs = <<>>
    /\ i = 1 /\ brace_level = 0 /\ start = 0 /\ objs = <<>>

IntentIdle ==
    /\ raw = <<>> /\ extracted = <<>> /\ k = 0 /\ commands = <<>> /\ renorm = <<>>

ReplIdle ==
    /\ pc = "prompt" /\ idx = 0
    /\ validation = NoValidation /\ obtained = NoneObtained
    /\ inflight = Null /\ result = Null /\ log = <<>> /\ live = <<>>

\* The parts of the program a specification leaves out stay as they are at
\* start-up: an empty cache, an empty memory, no ask_llm call.
NotServed == [key |-> "", at |-> 0, before |-> <<>>, names |-> <<>>,
              hit |-> FALSE, queries |-> 0, ret |-> <<>>, raised |-> FALSE]
CacheIdle == _CACHE = EmptyCache /\ now = 0 /\ served = NotServed
HistoryIdle == CONVERSATION_HISTORY = <<>> /\ appended = <<>>
LlmIdle == agent = "" /\ attempt = 0 /\ wire = <<>> /\ llm_ret = Null
NotPrinted == [raised |-> FALSE, text |-> ""]
PrintIdle == printed = NotPrinted
NoCall == [tool |-> ""]
ServerIdle == call = NoCall /\ external = FALSE
RestIdle == CacheIdle /\ HistoryIdle /\ LlmIdle /\ PrintIdle /\ ServerIdle

Init == ExtractIdle /\ IntentIdle /\ ReplIdle /\ RestIdle /\ cluster = InitCluster

\* input(): exit or quit ends the REPL.
ReadExit ==
    /\ pc = "prompt"
    /\ pc' = "exited"
    /\ UNCHANGED <<idx, validation, obtained, inflight, result, log, cluster, live>>
    /\ UNCHANGED extractVars /\ UNCHANGED intentVars /\ UNCHANGED restVars

\* input(): any other line goes to interpret_intent, which asks the generator
\* and extracts the objects of its answer.
ReadInput ==
    /\ pc = "prompt"
    /\ \E answer \in TurnAnswers :
          /\ raw' = answer
          /\ extracted' = answer
    /\ k' = 0
    /\ commands' = <<>>
    /\ pc' = "intent"
    /\ idx' = 0
    /\ validation' = NoValidation
    /\ obtained' = NoneObtained
    /\ log' = <<>>
    /\ live' = <<>>
    /\ result' = Null
    /\ UNCHANGED <<renorm, inflight, cluster>>
    /\ UNCHANGED extractVars /\ UNCHANGED restVars

\* A faulty variant of the loop step, against which the ordering property is
\* tested: it puts the command at the front of the list.
IntentStepPrepending ==
    /\ pc = "intent"
    /\ k < Len(extracted)
    /\ LET r == NormalizeData(extracted[k + 1])
       IN  /\ extracted' = [extracted EXCEPT ![k + 1] = r.data]
           /\ commands' = IF r.out = "append" THEN <<r.data>> \o commands ELSE commands
           /\ pc' = IF r.out = "raise" THEN "crashed" ELSE "intent"
    /\ k' = k + 1
    /\ UNCHANGED <<raw, renorm, idx, validation, obtained, inflight, result, log, cluster, live>>
    /\ UNCHANGED extractVars /\ UNCHANGED restVars

\* for data in extracted: one round of interpret_intent's loop.  An exception
\* leaves interpret_intent and run_agent: the process ends.
IntentStep ==
    /\ pc = "intent"
    /\ k < Len(extracted)
    /\ LET r == NormalizeData(extracted[k + 1])
       IN  /\ extracted' = [extracted EXCEPT ![k + 1] = r.data]
           /\ commands' = IF r.out = "append" THEN Append(commands, r.data) ELSE commands
           /\ pc' = IF r.out = "raise" THEN "crashed" ELSE "intent"
    /\ k' = k + 1
    /\ UNCHANGED <<raw, renorm, idx, validation, obtained, inflight, result, log, cluster, live>>
    /\ UNCHANGED extractVars /\ UNCHANGED restVars

\* interpret_intent returns; with no command the turn is over.
IntentReturn ==
    /\ pc = "intent"
    /\ k = Len(extracted)
    /\ IF commands = <<>>
       THEN pc' = "prompt" /\ idx' = 0
       ELSE pc' = "validate" /\ idx' = 1
    /\ UNCHANGED <<validation, obtained, inflight, result, log, cluster, live>>
    /\ UNCHANGED extractVars /\ UNCHANGED intentVars /\ UNCHANGED restVars

\* The for loop goes on to the next command, or the turn is over.
NextCommand ==
    IF idx < Len(commands)
    THEN pc' = "validate" /\ idx' = idx + 1
    ELSE pc' = "prompt" /\ idx' = idx

\* An event of the turn: what happened, to which command, and whether it went
\* well (a validation with no error, a result that is no error object).
Event(ev, ok) == [ev |-> ev, idx |-> idx, ok |-> ok]

IsErrorObject(v) == IsDict(v) /\ Has(v.m, "error")

\* The listing requests validate_args sends for a command.
Asked(command) ==
    Bind(validate_args(command, cluster, [c \in ListCalls |-> "ok"]).queries, LAMBDA q :
         {c \in ListCalls :
            InList(CASE c = "ns" -> "list_namespaces" [] c = "pods" -> "list_pods"
                     [] c = "deps" -> "list_deployments" [] c = "svcs" -> "list_services",
                   q)})

\* validation = validate_args(cmd).  The loop's `validation` and `result` hold
\* what the last round left until they are assigned again; they are not read
\* in between and are shown cleared.
Validate ==
    /\ pc = "validate"
    /\ \E failed \in SUBSET Asked(commands[idx]) :
       \E v \in {validate_args(commands[idx], cluster,
                                [c \in ListCalls |->
                                    IF c \in failed THEN "unreachable" ELSE "ok"])} :
          /\ validation' = [errors |-> v.errors, suggestions |-> v.suggestions]
          /\ obtained' = [queries |-> v.queries, errored |-> v.errored, names |-> v.names]
          /\ commands' = [commands EXCEPT ![idx] = v.command]
          /\ pc' = IF v.raised THEN "crashed" ELSE "validated"
          /\ log' = Append(log, Event("validate", v.errors = <<>>))
          /\ live' = live \o v.live
    /\ result' = Null
    /\ UNCHANGED <<raw, extracted, k, renorm, idx, inflight, cluster>>
    /\ UNCHANGED extractVars /\ UNCHANGED restVars

\* if validation["errors"]: print them; continue
Reject ==
    /\ pc = "validated"
    /\ validation.errors /= <<>>
    /\ log' = Append(log, Event("reject", FALSE))
    /\ NextCommand
    /\ UNCHANGED <<validation, obtained, inflight, result, cluster, live>>
    /\ UNCHANGED extractVars /\ UNCHANGED intentVars /\ UNCHANGED restVars

\* Faulty variants of the dispatch, against which the validation properties are
\* tested: one sends the command whatever validate_args returned, the other
\* sends it without calling validate_args.
DispatchIgnoringErrors ==
    /\ pc = "validated"
    /\ inflight' = commands[idx]
    /\ log' = Append(log, Event("dispatch", TRUE))
    /\ pc' = "calling"
    /\ UNCHANGED <<idx, validation, obtained, result, cluster, live>>
    /\ UNCHANGED extractVars /\ UNCHANGED intentVars /\ UNCHANGED restVars

DispatchUnvalidated ==
    /\ pc \in {"validate", "validated"}
    /\ pc = "validated" => validation.errors = <<>>
    /\ inflight' = commands[idx]
    /\ log' = Append(log, Event("dispatch", TRUE))
    /\ pc' = "calling"
    /\ UNCHANGED <<idx, validation, obtained, result, cluster, live>>
    /\ UNCHANGED extractVars /\ UNCHANGED intentVars /\ UNCHANGED restVars

\* result = call_mcp(cmd): the request goes out
Dispatch ==
    /\ pc = "validated"
    /\ validation.errors = <<>>
    /\ inflight' = commands[idx]
    /\ log' = Append(log, Event("dispatch", TRUE))
    /\ pc' = "calling"
    /\ UNCHANGED <<idx, validation, obtained, result, cluster, live>>
    /\ UNCHANGED extractVars /\ UNCHANGED intentVars /\ UNCHANGED restVars

\* A faulty variant of the return of call_mcp, against which the robustness
\* property is tested: a request that fails raises and ends the program.
RespondRaising ==
    /\ pc = "calling"
    /\ \E outcome \in Outcomes :
       \E r \in {call_mcp(inflight, cluster, outcome)} :
          /\ result' = r.ret
          /\ cluster' = r.cl
          /\ log' = Append(log, Event("result", ~ IsErrorObject(r.ret)))
          /\ IF outcome \in {"unreachable", "timeout"}
                 THEN pc' = "crashed" /\ idx' = idx
                 ELSE NextCommand
    /\ inflight' = Null
    /\ UNCHANGED <<validation, obtained, live>>
    /\ UNCHANGED extractVars /\ UNCHANGED intentVars /\ UNCHANGED restVars

\* ... and call_mcp returns: the tool's result, or an object with "error"
Respond ==
    /\ pc = "calling"
    /\ \E outcome \in Outcomes :
       \E r \in {call_mcp(inflight, cluster, outcome)} :
          /\ result' = r.ret
          /\ cluster' = r.cl
          /\ log' = Append(log, Event("result", ~ IsErrorObject(r.ret)))
    /\ inflight' = Null
    /\ NextCommand
    /\ UNCHANGED <<validation, obtained, live>>
    /\ UNCHANGED extractVars /\ UNCHANGED intentVars /\ UNCHANGED restVars

Next ==
    \/ ReadExit
    \/ ReadInput
    \/ IntentStep
    \/ IntentReturn
    \/ Validate
    \/ Reject
    \/ Dispatch
    \/ Respond

Spec == Init /\ [][Next]_vars

----------------------------------------------------------------------------
(* Properties of the REPL                                                    *)

Events(ev) == {n \in 1..Len(log) : log[n].ev = ev}

\* C1: a command is sent to the tool endpoint only if validate_args returned
\* no error for that same command; a command with errors is never sent.
C1_DispatchOnlyIfValid ==
    /\ \A n \in Events("dispatch") :
          /\ n > 1
          /\ log[n - 1] = [ev |-> "validate", idx |-> log[n].idx, ok |-> TRUE]
    /\ \A n \in Events("validate") :
          ~ log[n].ok => ~ \E d \in Events("dispatch") : log[d].idx = log[n].idx
    /\ pc = "calling" => validation.errors = <<>> /\ inflight = commands[idx]
    /\ inflight /= Null => pc = "calling"

\* A turn in which one command was refused and another one sent.
C1_Witness ==
    /\ Events("reject") /= {}
    /\ Events("dispatch") /= {}

\* C2 as stated: every command of the turn is validated before any command of
\* the turn is executed (no validate_args call after the first execution).
C2_AllValidatedBeforeAnyExecuted ==
    \A d \in Events("dispatch") : \A v \in Events("validate") : v < d

\* C2, amended: each command is validated right before it is executed itself,
\* and the validation of a command comes after the execution of every command
\* before it in the turn.
C2_ValidatedBeforeOwnExecution ==
    /\ \A d \in Events("dispatch") :
          \E v \in Events("validate") : v = d - 1 /\ log[v].idx = log[d].idx
    /\ \A v \in Events("validate") :
          \A e \in Events("dispatch") \cup Events("result") :
             log[e].idx < log[v].idx => e < v

\* The second command of a turn is being validated after the first one ran.
C2_Witness ==
    \E d \in Events("dispatch") : \E v \in Events("validate") :
       d < v /\ log[d].idx < log[v].idx

\* C3: a refused command and a failed execution leave the rest of the turn
\* alone: call_mcp hands back an error object instead of raising, the loop goes
\* on with the next command, and at the end of the turn every command has been
\* either refused or sent.
C3_FailuresDoNotAbortTurn ==
    /\ \A n \in Events("reject") \cup Events("result") :
          /\ n < Len(log) => log[n + 1] = [ev |-> "validate", idx |-> log[n].idx + 1,
                                           ok |-> log[n + 1].ok]
          /\ n = Len(log) /\ log[n].idx < Len(commands) =>
                pc = "validate" /\ idx = log[n].idx + 1
    /\ \A d \in Events("dispatch") :
          d < Len(log) => log[d + 1].ev = "result" /\ log[d + 1].idx = log[d].idx
    /\ pc = "crashed" /\ log /= <<>> => log[Len(log)].ev = "validate"
    /\ pc = "prompt" /\ commands /= <<>> =>
          \A j \in 1..Len(commands) :
             \E n \in Events("reject") \cup Events("dispatch") : log[n].idx = j

\* A command was sent after the execution of the command before it had failed,
\* and another after the command before it had been refused.
C3_Witness ==
    /\ result /= Null
    /\ \E n \in Events("result") :
          ~ log[n].ok /\ \E d \in Events("dispatch") : log[d].idx = log[n].idx + 1

C3_WitnessReject ==
    \E n \in Events("reject") : \E d \in Events("dispatch") : log[d].idx = log[n].idx + 1

\* C4: the commands are sent one at a time in the order their objects were
\* extracted: the commands interpret_intent returns are objects of the answer
\* in their order there, they are sent in that order, and one is sent only
\* after the result of the one before has come back.
C4_SequentialInOrder ==
    /\ log = <<>> /\ pc /= "crashed" =>
          \E f \in [1..Len(commands) -> 1..Len(extracted)] :
             /\ \A a, b \in 1..Len(commands) : a < b => f[a] < f[b]
             /\ \A a \in 1..Len(commands) : commands[a] = extracted[f[a]]
    /\ \A p, q \in Events("dispatch") :
          p < q =>
             /\ log[p].idx < log[q].idx
             /\ \E r \in Events("result") : p < r /\ r < q /\ log[r].idx = log[p].idx
    /\ \A d \in Events("dispatch") :
          d = Len(log) => inflight = commands[log[d].idx]

\* Two commands of one turn have been sent.
C4_Witness ==
    \E p, q \in Events("dispatch") : p < q

\* C14 as stated: the REPL ends only by the user's exit or quit; whatever the
\* generator answers, whatever validate_args finds and however the tool
\* endpoint fails, no exception ends the loop.
C14_OnlyExitEndsLoop == pc /= "crashed"

\* C16 as stated: while the commands of one turn are validated, each name
\* list (the namespaces, the pods, deployments or services of one namespace)
\* is requested from the cluster API at most once; the other lookups are
\* served from the 30 s cache.
C16_OneLiveQueryPerList ==
    \A m, n \in DOMAIN live : live[m] = live[n] => m = n

----------------------------------------------------------------------------
(* validate_args on its own: one command out of interpret_intent, checked    *)
(* against one of a few clusters.                                            *)

\* The argument dicts over the keys `keys`, each key absent or bound to one of
\* the values `vals` gives for it.
RECURSIVE ArgDicts(_, _)
ArgDicts(keys, vals) ==
    IF keys = <<>> THEN {<<>>}
    ELSE LET rest == ArgDicts(Tail(keys), vals)
         IN  rest \cup {<< <<Head(keys), v>> >> \o r : v \in vals[Head(keys)], r \in rest}

ArgValues ==
    [namespace |-> {Str("default"), Str("prod"), Str("ghost")},
     name |-> {Str("nginx"), Str("web-1"), Str("web"), Str("ghost")},
     deployment_name |-> {Str("nginx"), Str("cicd"), Str("ghost")},
     replicas |-> {Num("3")},
     image |-> {Str("nginx:1")},
     port |-> {Num("80")},
     verbose |-> {Str("yes")}]

ValidateTools ==
    {"scale_deployment", "restart_deployment", "delete_deployment", "delete_pod",
     "delete_service", "list_pods", "list_nodes", "create_namespace", "create_deployment"}

\* The objects the commands are made of: a tool with some of its parameters
\* and possibly a key the tool does not declare.
ValidateObjects ==
    UNION {{Cmd(t, a) :
              a \in ArgDicts(SelectSeq(SignatureOf(Str(t)), LAMBDA q : q /= "return")
                               \o (IF "namespace" \in Range(SignatureOf(Str(t)))
                                   THEN <<>> ELSE <<"namespace">>)
                               \o <<"verbose">>,
                             ArgValues)} : t \in ValidateTools}

ValidateClusters ==
    { InitCluster,
      [ns |-> {"default"},
       deps |-> [n \in NsUniverse |-> IF n = "default" THEN {"nginx"} ELSE {}],
       pods |-> [n \in NsUniverse |-> {}],
       svcs |-> [n \in NsUniverse |-> {}]],
      [ns |-> {"default", "prod"},
       deps |-> [n \in NsUniverse |-> IF n = "default" THEN {"nginx"} ELSE {"cicd", "nginx"}],
       pods |-> [n \in NsUniverse |-> IF n = "default" THEN {} ELSE {"web-1"}],
       svcs |-> [n \in NsUniverse |-> IF n = "default" THEN {} ELSE {"web"}]] }

\* interpret_intent has made a command of one object; validate_args is next.
InitValidate ==
    /\ ExtractIdle
    /\ \E o \in ValidateObjects :
          LET r == NormalizeData(o)
          IN  /\ r.out = "append"
              /\ raw = <<o>> /\ extracted = <<r.data>> /\ commands = <<r.data>>
    /\ k = 1 /\ renorm = <<>>
    /\ pc = "validate" /\ idx = 1
    /\ validation = NoValidation /\ obtained = NoneObtained
    /\ inflight = Null /\ result = Null /\ log = <<>> /\ live = <<>>
    /\ RestIdle
    /\ cluster \in ValidateClusters

NextValidate == Validate

SpecValidate == InitValidate /\ [][NextValidate]_vars

\* The command validate_args was called on, and what it was checked against.
Validated == log /= <<>> /\ pc = "validated"
ArgsOf(command) == Get(command.m, "args").m
ToolOf(command) == Get(command.m, "tool").s
NamesAsValues(names) == [n \in 1..Len(names) |-> Str(names[n])]

\* C9: a command whose namespace is not among the namespace names the
\* validator obtained is rejected, and the rejection's suggestion list is that
\* very list, same elements in the same order.
C9_UnknownNamespaceRejected ==
    Validated =>
       LET args == ArgsOf(commands[idx])
           names == obtained.names.list_namespaces
       IN  (Has(args, "namespace") /\ ~ InList(Get(args, "namespace"), names)) =>
              /\ validation.errors /= <<>>
              /\ ~ log[Len(log)].ok
              /\ ("Namespace '" \o Fmt(Get(args, "namespace")) \o "' not found.")
                    \in Range(validation.errors)
              /\ Has(validation.suggestions, "available_namespaces")
              /\ Get(validation.suggestions, "available_namespaces") = names
              /\ names \in {<<>>, NamesAsValues(ListOf(cluster.ns))}

\* A command for a namespace the cluster does not have, checked against a
\* cluster with two namespaces.
C9_Witness ==
    /\ Validated
    /\ Has(ArgsOf(commands[idx]), "namespace")
    /\ Len(obtained.names.list_namespaces) = 2
    /\ ~ InList(Get(ArgsOf(commands[idx]), "namespace"), obtained.names.list_namespaces)

\* The name list a tool's resource name is looked up in, if any.
KindOf(tool) ==
    CASE tool \in {"delete_pod"} -> "list_pods"
      [] tool \in {"scale_deployment", "restart_deployment", "delete_deployment"}
           -> "list_deployments"
      [] tool \in {"delete_service"} -> "list_services"
      [] OTHER -> "none"

ResourceNameKeys == {"name", "pod_name", "deployment_name", "service_name"}

\* What C10 asks of a command: its keys are declared, its namespace is among
\* the namespaces obtained, and its one resource name is among the names
\* obtained of the tool's kind.
C10_Premise ==
    LET command == commands[idx]
        args == ArgsOf(command)
        signature == SignatureOf(Str(ToolOf(command)))
        nameKeys == {q \in Range(Keys(args)) : q \in ResourceNameKeys}
    IN  /\ Validated
        /\ Range(Keys(args)) \subseteq Range(signature)
        /\ Has(args, "namespace") =>
              InList(Get(args, "namespace"), obtained.names.list_namespaces)
        /\ Cardinality(nameKeys) = 1
        /\ \A q \in nameKeys :
              /\ Get(args, q).t = "str"
              /\ KindOf(ToolOf(command)) /= "none" =>
                    InList(Get(args, q), obtained.names[KindOf(ToolOf(command))])

\* The cluster's names of a kind in a namespace, as the listing gives them.
ClusterNames(kind, ns) ==
    NamesAsValues(ListOf(CASE kind = "list_pods" -> NamesIn(cluster.pods, ns)
                           [] kind = "list_deployments" -> NamesIn(cluster.deps, ns)
                           [] kind = "list_services" -> NamesIn(cluster.svcs, ns)))

\* The name list the resource name was looked up in is the cluster's list for
\* the namespace the command resolves to.
LookedUpInResolvedNamespace ==
    LET command == commands[idx]
        kind == KindOf(ToolOf(command))
    IN  kind /= "none" =>
           obtained.names[kind] =
              ClusterNames(kind, GetOr(ArgsOf(command), "namespace", Str("default")))

\* C10 as stated: validate_args returns no error for such a command.
C10_AcceptsMatchingCandidate ==
    C10_Premise => validation.errors = <<>>

\* C10, amended: validate_args returns no error for such a command when the
\* command also binds every parameter the tool declares.
C10_AcceptsCompleteMatchingCandidate ==
    (/\ C10_Premise
     /\ \A q \in Range(SignatureOf(Str(ToolOf(commands[idx])))) :
           q /= "return" => Has(ArgsOf(commands[idx]), q))
       => /\ validation.errors = <<>>
          /\ log[Len(log)].ok
          /\ LookedUpInResolvedNamespace

\* A complete command for a deployment of namespace prod has been accepted.
C10_Witness ==
    /\ C10_Premise
    /\ ToolOf(commands[idx]) = "scale_deployment"
    /\ Has(ArgsOf(commands[idx]), "replicas")
    /\ Get(ArgsOf(commands[idx]), "namespace") = Str("prod")
    /\ validation.errors = <<>>

\* The keys of the command's args the tool does not declare, and the keys the
\* tool declares (other than `return`) that the args lack.
UndeclaredKeys == Range(Keys(ArgsOf(commands[idx]))) \ Range(SignatureOf(Str(ToolOf(commands[idx]))))
LackingKeys == Params(ToolOf(commands[idx])) \ Range(Keys(ArgsOf(commands[idx])))

MissingArgument(q) == "Missing argument '" \o q \o "'."
NamespaceNotFound ==
    /\ Has(ArgsOf(commands[idx]), "namespace")
    /\ ("Namespace '" \o Fmt(Get(ArgsOf(commands[idx]), "namespace")) \o "' not found.")
          \in Range(validation.errors)

\* C15 as stated: once validate_args has found an undeclared key, a lacking
\* key or an unknown namespace, it asks the tool endpoint for no further
\* list: none at all after a key error, and no pod, deployment or service list
\* after the namespace was not found.
C15_NoQueryAfterFailure ==
    Validated =>
       /\ (UndeclaredKeys /= {} \/ LackingKeys /= {}) => obtained.queries = <<>>
       /\ NamespaceNotFound => Range(obtained.queries) \subseteq {"list_namespaces"}

\* C17 as stated: a parameter the tool function gives a default value, and
\* the key `return`, are never reported as missing.
C17_DefaultedNeverMissing ==
    Validated =>
       \A q \in Defaulted[ToolOf(commands[idx])] \cup {"return"} :
          MissingArgument(q) \notin Range(validation.errors)

ResourceNotFound(label, alias) ==
    (label \o " '" \o Fmt(FirstOf(ArgsOf(commands[idx]), "name", alias)) \o "' not found in '"
        \o Fmt(GetOr(ArgsOf(commands[idx]), "namespace", Str("default"))) \o "'.")
       \in Range(validation.errors)

\* C29 as stated: validate_args reports a namespace, pod, deployment or
\* service as not found only when the list request for that kind did not come
\* back as an error object.
C29_NotFoundOnlyFromAnsweredListing ==
    Validated =>
       /\ NamespaceNotFound => "list_namespaces" \notin obtained.errored
       /\ ResourceNotFound("Pod", "pod_name") => "list_pods" \notin obtained.errored
       /\ ResourceNotFound("Deployment", "deployment_name")
             => "list_deployments" \notin obtained.errored
       /\ ResourceNotFound("Service", "service_name") => "list_services" \notin obtained.errored

----------------------------------------------------------------------------
(* interpret_intent on its own: the loop over the objects of one answer,     *)
(* and then the loop's body once more over what the loop left.               *)

\* Objects an answer may hold: extract_json_objects returns JSON objects only.
IntentObjects ==
    { Cmd("restart_deployment", << <<"deployment_name", Str("cicd")>> >>),
      Cmd("scale_deployment", << <<"deployment_name", Str("nginx")>>,
                                 <<"replicas", Num("3")>>,
                                 <<"namespace", Str("prod")>> >>),
      Cmd("scale_deployment", << <<"namespace", Null>>,
                                 <<"deployment_name", Str("nginx")>> >>),
      Cmd("list_nodes", << <<"namespace", Str("default")>>, <<"verbose", Str("yes")>> >>),
      Cmd("create_namespace", << <<"name", Str("prod")>> >>),
      Obj(<< <<"tool", Str("list_pods")>>, <<"args", Str("all")>> >>),
      Obj(<< <<"tool", Str("list_pods")>> >>),
      Obj(<< <<"tool", Str("list_pods")>>, <<"args", Obj(<< <<"namespace", Str("")>> >>)>>,
             <<"note", Str("x")>> >>),
      Cmd("frobnicate", << <<"namespace", Str("prod")>> >>),
      Obj(<< <<"tool", Null>>, <<"args", Obj(<<>>)>> >>),
      Obj(<< <<"tool", List(<<>>)>> >>),
      Obj(<< <<"args", Obj(<< <<"namespace", Str("prod")>> >>)>> >>) }

IntentAnswers == SeqsUpTo(IntentObjects, MaxCmds)

\* extract_json_objects has returned; the loop starts.
InitIntent ==
    /\ ExtractIdle
    /\ raw \in IntentAnswers /\ extracted = raw
    /\ k = 0 /\ commands = <<>> /\ renorm = <<>>
    /\ pc = "intent" /\ idx = 0
    /\ validation = NoValidation /\ obtained = NoneObtained
    /\ inflight = Null /\ result = Null /\ log = <<>> /\ live = <<>>
    /\ RestIdle
    /\ cluster = InitCluster

\* The loop's body applied again to an object the loop is done with.
Renormalize ==
    /\ pc \in {"prompt", "validate"}
    /\ log = <<>>
    /\ Len(renorm) < Len(extracted)
    /\ renorm' = Append(renorm, NormalizeData(extracted[Len(renorm) + 1]))
    /\ UNCHANGED <<raw, extracted, k, commands, cluster>>
    /\ UNCHANGED extractVars /\ UNCHANGED replVars /\ UNCHANGED restVars

NextIntent ==
    \/ IntentStep
    \/ IntentReturn
    \/ Renormalize

SpecIntent == InitIntent /\ [][NextIntent]_vars

\* The args an object came with (none when it had no args dict).
GivenArgs(d) ==
    IF Has(d.m, "args") /\ IsDict(Get(d.m, "args")) THEN Get(d.m, "args").m ELSE <<>>

NamesRegisteredTool(d) == IsDict(d) /\ Has(d.m, "tool") /\ IsKnownTool(Get(d.m, "tool"))

OtherArgs(args) == SelectSeq(args, LAMBDA p : p[1] /= "namespace")

\* C7: for an object naming a registered tool, the loop sets a missing
\* namespace to "default" when the tool declares one, removes the namespace
\* when the tool declares none, and leaves every other argument as it was.
C7_NamespaceNormalized ==
    \A j \in 1..k :
       NamesRegisteredTool(raw[j]) =>
          LET tool == Get(raw[j].m, "tool")
              given == GivenArgs(raw[j])
              args == ArgsOf(extracted[j])
          IN  /\ InList(extracted[j], commands)
              /\ tool_requires_namespace(tool) /\ ~ Has(given, "namespace") =>
                    Has(args, "namespace") /\ Get(args, "namespace") = Str("default")
              /\ ~ tool_requires_namespace(tool) => ~ Has(args, "namespace")
              /\ OtherArgs(args) = OtherArgs(given)
              /\ MapPop(extracted[j].m, "args") = MapPop(raw[j].m, "args")

\* The loop has defaulted the namespace of one command that has other
\* arguments and removed the namespace from another.
C7_Witness ==
    /\ \E j \in 1..k :
          /\ NamesRegisteredTool(raw[j])
          /\ tool_requires_namespace(Get(raw[j].m, "tool"))
          /\ ~ Has(GivenArgs(raw[j]), "namespace")
          /\ GivenArgs(raw[j]) /= <<>>
    /\ \E j \in 1..k :
          /\ NamesRegisteredTool(raw[j])
          /\ ~ tool_requires_namespace(Get(raw[j].m, "tool"))
          /\ Has(GivenArgs(raw[j]), "namespace")

\* C8: the loop's body applied to an object it has already normalized gives
\* the same object again, and keeps or filters it as before.
C8_NormalizationIdempotent ==
    \A j \in 1..Len(renorm) :
       /\ renorm[j].data = extracted[j]
       /\ renorm[j].out /= "raise"
       /\ renorm[j].out = "append" <=> InList(extracted[j], commands)

\* An object the loop changed has been normalized a second time.
C8_Witness ==
    \E j \in 1..Len(renorm) :
       /\ extracted[j] /= raw[j]
       /\ NamesRegisteredTool(raw[j])
       /\ renorm[j].out = "append"

\* The object has no `tool`, or its `tool` is a name (a hashable value) that is
\* no key of the registry.
NamesNoRegisteredTool(d) ==
    \/ ~ IsDict(d) \/ ~ Has(d.m, "tool")
    \/ IsHashable(Get(d.m, "tool")) /\ ~ IsKnownTool(Get(d.m, "tool"))

\* C21: every command of interpret_intent is an object with a registered tool
\* and a mapping as args (empty when the object had none or had another
\* value there); an object without `tool` or with an unregistered tool name
\* is left out and the loop goes on to the objects after it, so that the
\* commands are exactly the objects naming a registered tool, in order; with
\* no such object the result is empty and run_agent goes back to the prompt
\* without a request to the tool endpoint.
C21_CommandsAreTheRegisteredObjects ==
    /\ \A n \in DOMAIN commands :
          /\ IsDict(commands[n])
          /\ Has(commands[n].m, "tool") /\ IsKnownTool(Get(commands[n].m, "tool"))
          /\ Has(commands[n].m, "args") /\ IsDict(Get(commands[n].m, "args"))
    /\ \A j \in 1..k :
          /\ NamesNoRegisteredTool(raw[j]) => ~ InList(extracted[j], commands)
          /\ (NamesRegisteredTool(raw[j]) /\ GivenArgs(raw[j]) = <<>>)
                => OtherArgs(ArgsOf(extracted[j])) = <<>>
    /\ (\A j \in 1..k : NamesNoRegisteredTool(raw[j]) \/ NamesRegisteredTool(raw[j]))
          => /\ pc /= "crashed"
             /\ commands = SelectSeq(SubSeq(extracted, 1, k), NamesRegisteredTool)
    /\ (pc \in {"prompt", "validate"}) =>
          /\ k = Len(extracted)
          /\ (pc = "prompt") <=> (commands = <<>>)
          /\ inflight = Null

\* The loop has left out an object that names no registered tool and has then
\* appended an object that came with a non-mapping args value.
C21_Witness ==
    /\ k = 2
    /\ NamesNoRegisteredTool(raw[1])
    /\ NamesRegisteredTool(raw[2])
    /\ Has(raw[2].m, "args") /\ ~ IsDict(Get(raw[2].m, "args"))
    /\ commands = << extracted[2] >>
    /\ pc = "validate"

\* No object of the answer named a registered tool: the turn is over.
C21_WitnessNone ==
    /\ k = 2 /\ pc = "prompt" /\ commands = <<>>

\* C19 as stated: every argument key of every command interpret_intent
\* returns is a key the command's tool declares; the loop removes the others.
C19_OnlyDeclaredKeys ==
    \A j \in DOMAIN commands :
       Range(Keys(ArgsOf(commands[j]))) \subseteq Range(SignatureOf(Str(ToolOf(commands[j]))))

----------------------------------------------------------------------------
(* extract_json_objects: the fences are taken out of the text, then one scan *)
(* over its characters tracks the brace level and hands every stretch from a *)
(* level-0 "{" to the "}" that brings the level back to 0 to json.loads.     *)
(* A text is a sequence of one-character strings.                            *)

At(cs, p) == IF p >= 1 /\ p <= Len(cs) THEN cs[p] ELSE "<end>"

RECURSIVE Concat(_)
\* "".join(cs)
Concat(cs) == IF cs = <<>> THEN "" ELSE Head(cs) \o Concat(Tail(cs))

Lower(c) ==
    CASE c = "J" -> "j" [] c = "S" -> "s" [] c = "O" -> "o" [] c = "N" -> "n" [] OTHER -> c

\* The backquote character, written out since a string cannot hold it.
Tick == "<backquote>"

IsFence(cs, p) == At(cs, p) = Tick /\ At(cs, p + 1) = Tick /\ At(cs, p + 2) = Tick

IsTag(cs, p) ==
    <<Lower(At(cs, p)), Lower(At(cs, p + 1)), Lower(At(cs, p + 2)), Lower(At(cs, p + 3))>>
       = <<"j", "s", "o", "n">>

RECURSIVE SubFences(_, _, _)
\* re.sub by "" of three backquotes, with the tag json in any case after them
\* when `tagged`: the matches are taken from the left and do not overlap.
SubFences(cs, p, tagged) ==
    IF p > Len(cs) THEN <<>>
    ELSE IF IsFence(cs, p)
         THEN SubFences(cs, IF tagged /\ IsTag(cs, p + 3) THEN p + 7 ELSE p + 3, tagged)
         ELSE <<cs[p]>> \o SubFences(cs, p + 1, tagged)

Whitespace == {" ", "\n", "\t", "\r"}

RECURSIVE Strip(_)
\* str.strip()
Strip(cs) ==
    IF cs = <<>> THEN <<>>
    ELSE IF Head(cs) \in Whitespace THEN Strip(Tail(cs))
    ELSE IF cs[Len(cs)] \in Whitespace THEN Strip(SubSeq(cs, 1, Len(cs) - 1))
    ELSE cs

\* The first two statements of extract_json_objects.
StripFences(cs) == Strip(SubFences(SubFences(cs, 1, TRUE), 1, FALSE))

\* json.loads on the characters the model's texts are written in: objects,
\* strings without escapes, and unsigned integers.  A parse gives the value
\* and the position after it; ok is FALSE where json.loads raises
\* JSONDecodeError.
Digit == {"0", "1", "2", "3", "4", "5", "6", "7", "8", "9"}
ParseFail == [ok |-> FALSE, v |-> Null, p |-> 0]

RECURSIVE SkipWs(_, _)
SkipWs(cs, p) == IF At(cs, p) \in Whitespace THEN SkipWs(cs, p + 1) ELSE p

RECURSIVE EndOfString(_, _)
\* The position of the quote that closes a string, 0 when there is none.
EndOfString(cs, p) ==
    IF p > Len(cs) THEN 0
    ELSE IF cs[p] = "\"" THEN p
    ELSE IF cs[p] \in {"\\", "\n", "\t", "\r"} THEN 0
    ELSE EndOfString(cs, p + 1)

ParseString(cs, p) ==
    LET q == EndOfString(cs, p + 1)
    IN  IF At(cs, p) /= "\"" \/ q = 0 THEN ParseFail
        ELSE [ok |-> TRUE, v |-> Str(Concat(SubSeq(cs, p + 1, q - 1))), p |-> q + 1]

RECURSIVE EndOfDigits(_, _)
EndOfDigits(cs, p) == IF At(cs, p) \in Digit THEN EndOfDigits(cs, p + 1) ELSE p

ParseNumber(cs, p) ==
    LET q == EndOfDigits(cs, p)
    IN  IF q = p \/ (cs[p] = "0" /\ q > p + 1) THEN ParseFail
        ELSE [ok |-> TRUE, v |-> Num(Concat(SubSeq(cs, p, q - 1))), p |-> q]

RECURSIVE ParseValue(_, _)
RECURSIVE ParsePairs(_, _, _)

ParseObject(cs, p) ==
    LET q == SkipWs(cs, p + 1)
    IN  IF At(cs, p) /= "{" THEN ParseFail
        ELSE IF At(cs, q) = "}" THEN [ok |-> TRUE, v |-> Obj(<<>>), p |-> q + 1]
        ELSE ParsePairs(cs, q, <<>>)

ParseValue(cs, p) ==
    CASE At(cs, p) = "{" -> ParseObject(cs, p)
      [] At(cs, p) = "\"" -> ParseString(cs, p)
      [] At(cs, p) \in Digit -> ParseNumber(cs, p)
      [] OTHER -> ParseFail

\* The members of an object from position p on, m being those before p.
ParsePairs(cs, p, m) ==
    LET key == ParseString(cs, p)
        colon == SkipWs(cs, key.p)
        val == ParseValue(cs, SkipWs(cs, colon + 1))
        after == SkipWs(cs, val.p)
        m2 == MapSet(m, key.v.s, val.v)
    IN  IF ~ key.ok \/ At(cs, colon) /= ":" THEN ParseFail
        ELSE IF ~ val.ok THEN ParseFail
        ELSE IF At(cs, after) = "}" THEN [ok |-> TRUE, v |-> Obj(m2), p |-> after + 1]
        ELSE IF At(cs, after) = "," THEN ParsePairs(cs, SkipWs(cs, after + 1), m2)
        ELSE ParseFail

\* json.loads(candidate) for a candidate that starts with "{".
json_loads(cs) ==
    LET r == ParseObject(cs, SkipWs(cs, 1))
    IN  IF r.ok /\ SkipWs(cs, r.p) = Len(cs) + 1 THEN r ELSE ParseFail

\* The texts: at most MaxFrags pieces, each a well-formed object (plain,
\* nested, with a brace inside a string value), a brace-delimited piece that is
\* no JSON, a stray brace, a word, or a fence (tagged in either case, or bare).
MaxFrags == 3

Fragments ==
    {"objA", "objN", "objS", "bad", "open", "close", "prose", "fence_json", "fence_JSON",
     "fence"}

FragChars(f) ==
    CASE f = "objA" -> <<"{", "\"", "a", "\"", ":", "1", "}">>
      [] f = "objN" -> <<"{", "\"", "b", "\"", ":", "{", "\"", "a", "\"", ":", "1", "}", "}">>
      [] f = "objS" -> <<"{", "\"", "a", "\"", ":", "\"", "}", "\"", "}">>
      [] f = "bad" -> <<"{", "a", "}">>
      [] f = "open" -> <<"{">>
      [] f = "close" -> <<"}">>
      [] f = "prose" -> <<" ", "o", "k", " ">>
      [] f = "fence_json" -> <<Tick, Tick, Tick, "j", "s", "o", "n">>
      [] f = "fence_JSON" -> <<Tick, Tick, Tick, "J", "S", "O", "N">>
      [] f = "fence" -> <<Tick, Tick, Tick>>

RECURSIVE Flatten(_)
Flatten(fs) == IF fs = <<>> THEN <<>> ELSE FragChars(Head(fs)) \o Flatten(Tail(fs))

\* extract_json_objects is called on a text; the fences are out.
InitExtract ==
    /\ segs \in SeqsUpTo(Fragments, MaxFrags)
    /\ rawText = Flatten(segs)
    /\ text = StripFences(rawText)
    /\ i = 1 /\ brace_level = 0 /\ start = 0 /\ objs = <<>>
    /\ pc = "scan"
    /\ IntentIdle
    /\ idx = 0 /\ validation = NoValidation /\ obtained = NoneObtained
    /\ inflight = Null /\ result = Null /\ log = <<>> /\ live = <<>>
    /\ RestIdle
    /\ cluster = InitCluster

\* One round of the loop over the characters; `start` is 0 for None.
ScanOpen ==
    /\ pc = "scan" /\ i <= Len(text) /\ text[i] = "{"
    /\ start' = IF brace_level = 0 THEN i ELSE start
    /\ brace_level' = brace_level + 1
    /\ i' = i + 1
    /\ UNCHANGED <<text, rawText, segs, objs, cluster>>
    /\ UNCHANGED intentVars /\ UNCHANGED replVars /\ UNCHANGED restVars

ScanClose ==
    /\ pc = "scan" /\ i <= Len(text) /\ text[i] = "}"
    /\ brace_level' = brace_level - 1
    /\ objs' = IF brace_level' = 0 /\ start /= 0
               THEN LET data == json_loads(SubSeq(text, start, i))
                    IN  IF data.ok THEN Append(objs, data.v) ELSE objs
               ELSE objs
    /\ i' = i + 1
    /\ UNCHANGED <<text, rawText, segs, start, cluster>>
    /\ UNCHANGED intentVars /\ UNCHANGED replVars /\ UNCHANGED restVars

ScanOther ==
    /\ pc = "scan" /\ i <= Len(text) /\ text[i] \notin {"{", "}"}
    /\ i' = i + 1
    /\ UNCHANGED <<text, rawText, segs, brace_level, start, objs, cluster>>
    /\ UNCHANGED intentVars /\ UNCHANGED replVars /\ UNCHANGED restVars

\* return objs: interpret_intent goes on with the objects.
ScanReturn ==
    /\ pc = "scan" /\ i > Len(text)
    /\ raw' = objs /\ extracted' = objs
    /\ k' = 0 /\ commands' = <<>>
    /\ pc' = "intent"
    /\ UNCHANGED <<renorm, idx, validation, obtained, inflight, result, log, cluster, live>>
    /\ UNCHANGED extractVars /\ UNCHANGED restVars

NextExtract ==
    \/ ScanOpen
    \/ ScanClose
    \/ ScanOther
    \/ ScanReturn

SpecExtract == InitExtract /\ [][NextExtract]_vars

ObjectFrags == {"objA", "objN", "objS"}
MalformedFrags == {"bad", "open", "close"}

\* The object a well-formed piece writes down.
ObjectOf(f) ==
    CASE f = "objA" -> Obj(<< <<"a", Num("1")>> >>)
      [] f = "objN" -> Obj(<< <<"b", Obj(<< <<"a", Num("1")>> >>)>> >>)
      [] f = "objS" -> Obj(<< <<"a", Str("}")>> >>)

ExtractReturned == pc = "intent"

\* C5: a well-formed object that comes after a malformed piece (braces around
\* what is no JSON, or a stray brace) is in the result all the same.  Stated
\* for the objects that no stray "{" before and stray "}" after enclose.
C5_LaterObjectsSurviveMalformed ==
    ExtractReturned =>
       \A n \in 1..Len(segs) :
          (/\ segs[n] \in ObjectFrags
           /\ \E m \in 1..(n - 1) : segs[m] \in MalformedFrags
           /\ ~ \E m \in 1..(n - 1) : \E r \in (n + 1)..Len(segs) :
                   segs[m] = "open" /\ segs[r] = "close")
             => InList(ObjectOf(segs[n]), objs)

\* C6: the result is exactly the well-formed objects of the text, in their
\* order, each once; a nested object comes only inside its parent, and the
\* braces of string values and of the prose change nothing.  Stated for the
\* texts whose braces outside the objects are balanced.
C6_ExactlyTheObjects ==
    ExtractReturned =>
       LET written == SelectSeq(segs, LAMBDA f : f \in ObjectFrags)
       IN  (/\ written /= <<>>
            /\ \A n \in 1..Len(segs) : segs[n] \notin {"open", "close"})
              => objs = [n \in 1..Len(written) |-> ObjectOf(written[n])]

----------------------------------------------------------------------------
(* The cached listings on their own: calls of the four list_*_cached         *)
(* functions, the clock going on between them, and the cluster changing.     *)

\* The clock is followed up to MaxNow, in steps around the TTL.
MaxNow == 61
Steps == {_CACHE_TTL - 1, _CACHE_TTL, _CACHE_TTL + 1}

InitCache ==
    /\ ExtractIdle /\ IntentIdle /\ ReplIdle
    /\ HistoryIdle /\ LlmIdle /\ PrintIdle /\ ServerIdle
    /\ CacheIdle
    /\ cluster = InitCluster

\* A call returns (or raises): `served` keeps what the call found and did.
Serve(key, names, r) ==
    /\ served' = [key |-> key, at |-> now, before |-> _CACHE[key], names |-> names,
                  hit |-> r.hit, queries |-> r.queries, ret |-> r.ret, raised |-> r.raised]
    /\ _CACHE' = r.cache
    /\ UNCHANGED <<now, cluster>>
    /\ UNCHANGED extractVars /\ UNCHANGED intentVars /\ UNCHANGED replVars
    /\ UNCHANGED historyVars /\ UNCHANGED llmVars
    /\ UNCHANGED printVars /\ UNCHANGED serverVars

ListNamespacesCached ==
    \E outcome \in LiveOutcomes :
       \E r \in {list_namespaces_cached(_CACHE, cluster, now, outcome)} :
          Serve("namespaces", ListOf(cluster.ns), r)

ListDeploymentsCached ==
    \E namespace \in CacheNamespaces, outcome \in LiveOutcomes :
       \E r \in {list_deployments_cached(_CACHE, cluster, namespace, now, outcome)} :
          Serve("deployments::" \o namespace, NamesOfNs(cluster.deps, namespace), r)

ListServicesCached ==
    \E namespace \in CacheNamespaces, outcome \in LiveOutcomes :
       \E r \in {list_services_cached(_CACHE, cluster, namespace, now, outcome)} :
          Serve("services::" \o namespace, NamesOfNs(cluster.svcs, namespace), r)

ListPodsCached ==
    \E namespace \in CacheNamespaces, outcome \in LiveOutcomes :
       \E r \in {list_pods_cached(_CACHE, cluster, namespace, now, outcome)} :
          Serve("pods::" \o namespace, NamesOfNs(cluster.pods, namespace), r)

\* Time passes.
Advance ==
    /\ \E d \in Steps : now + d <= MaxNow /\ now' = now + d
    /\ UNCHANGED <<_CACHE, served, cluster>>
    /\ UNCHANGED extractVars /\ UNCHANGED intentVars /\ UNCHANGED replVars
    /\ UNCHANGED historyVars /\ UNCHANGED llmVars
    /\ UNCHANGED printVars /\ UNCHANGED serverVars

\* The cluster's names change (whoever changes them): a namespace and a
\* deployment come and go.
CacheClusters ==
    { InitCluster,
      [InitCluster EXCEPT !.ns = {"default"}, !.deps["default"] = {"nginx"}] }

ClusterChange ==
    /\ cluster' \in CacheClusters \ {cluster}
    /\ UNCHANGED <<_CACHE, now, served>>
    /\ UNCHANGED extractVars /\ UNCHANGED intentVars /\ UNCHANGED replVars
    /\ UNCHANGED historyVars /\ UNCHANGED llmVars
    /\ UNCHANGED printVars /\ UNCHANGED serverVars

NextCache ==
    \/ ListNamespacesCached
    \/ ListDeploymentsCached
    \/ ListServicesCached
    \/ ListPodsCached
    \/ Advance
    \/ ClusterChange

SpecCache == InitCache /\ [][NextCache]_vars

\* The age the key's entry had when the last call was made.
AgeServed == served.at - served.before[1]

\* C11: a cached listing called while the key's entry is younger than the TTL
\* returns the stored list, sends no request to the cluster and leaves the
\* entry as it is.  Called when the entry is older than the TTL it does not
\* use the entry: the old entry is gone, at most one list request is sent to
\* the cluster (exactly one unless the cluster configuration cannot be
\* loaded), and when the cluster answers the call returns the cluster's
\* current list and stores it with the time of the call.
C11_TtlDecidesHitOrRefetch ==
    (served.key /= "" /\ served.before /= <<>>) =>
       /\ AgeServed < _CACHE_TTL =>
             /\ served.hit /\ ~ served.raised
             /\ served.queries = 0
             /\ served.ret = served.before[2]
             /\ _CACHE[served.key] = served.before
       /\ AgeServed > _CACHE_TTL =>
             /\ ~ served.hit
             /\ served.queries = IF served.raised THEN 0 ELSE 1
             /\ _CACHE[served.key] \in {<<>>, <<served.at, served.names>>}
             /\ _CACHE[served.key] /= <<>> => served.ret = served.names
             /\ _CACHE[served.key] = <<>> => served.ret = <<>>

\* A list stored 31s before was fetched again and the new list, which differs
\* from the old one, stored in its place.
C11_Witness ==
    /\ served.key /= "" /\ served.before /= <<>>
    /\ AgeServed = _CACHE_TTL + 1
    /\ served.queries = 1
    /\ _CACHE[served.key] = <<served.at, served.ret>>
    /\ served.ret /= served.before[2]

\* A list stored 29s before was returned although the cluster's list differs.
C11_WitnessFresh ==
    /\ served.key /= "" /\ served.before /= <<>>
    /\ AgeServed = _CACHE_TTL - 1
    /\ served.hit
    /\ served.ret /= served.names

----------------------------------------------------------------------------
(* The conversation memory of agent-test.py: CONVERSATION_HISTORY is a       *)
(* deque(maxlen=10); update_history appends one turn at the end of a turn.   *)

maxlen == 10

\* A faulty variant of update_history, against which the memory property is
\* tested: a full memory lets go of its newest turn to take the new one.
update_historyEvictingNewest(history, user_input, llm_output, mcp_output) ==
    LET turn == [user |-> user_input, llm |-> llm_output, mcp |-> mcp_output]
    IN  IF Len(history) = maxlen
        THEN Append(SubSeq(history, 1, maxlen - 1), turn)
        ELSE Append(history, turn)

\* deque.append on a deque with maxlen: when the deque is full the item at
\* the other end (the oldest) is discarded.
update_history(history, user_input, llm_output, mcp_output) ==
    LET turn == [user |-> user_input, llm |-> llm_output, mcp |-> mcp_output]
    IN  IF Len(history) = maxlen
        THEN Append(Tail(history), turn)
        ELSE Append(history, turn)

\* The turns of a session: what the user typed, the commands as text, the
\* results as text.  The session is followed for MaxTurns turns.
MaxTurns == 12

HistoryTurns ==
    { [user |-> "list pods", llm |-> "[list_pods]", mcp |-> "[web-1]"],
      [user |-> "get nodes", llm |-> "[list_nodes]", mcp |-> "[node-1]"] }

InitHistory ==
    /\ ExtractIdle /\ IntentIdle /\ ReplIdle
    /\ CacheIdle /\ LlmIdle /\ PrintIdle /\ ServerIdle
    /\ HistoryIdle
    /\ cluster = InitCluster

\* update_history(user_input, llm_output_str, mcp_output_str) at the end of
\* a turn that had commands.
UpdateHistory ==
    /\ Len(appended) < MaxTurns
    /\ \E turn \in HistoryTurns :
          /\ CONVERSATION_HISTORY' =
                update_history(CONVERSATION_HISTORY, turn.user, turn.llm, turn.mcp)
          /\ appended' = Append(appended, turn)
    /\ UNCHANGED cluster
    /\ UNCHANGED extractVars /\ UNCHANGED intentVars /\ UNCHANGED replVars
    /\ UNCHANGED cacheVars /\ UNCHANGED llmVars
    /\ UNCHANGED printVars /\ UNCHANGED serverVars

NextHistory == UpdateHistory

SpecHistory == InitHistory /\ [][NextHistory]_vars

\* C12: after any number of update_history calls the memory holds at most 10
\* turns, and they are the turns appended last, in the order they were
\* appended: once more than 10 turns have been appended, exactly the oldest
\* ones are gone.
C12_HoldsLastTenInOrder ==
    LET n == Len(appended)
        held == Len(CONVERSATION_HISTORY)
    IN  /\ held <= maxlen
        /\ held = IF n < maxlen THEN n ELSE maxlen
        /\ CONVERSATION_HISTORY = SubSeq(appended, n - held + 1, n)

\* Twelve turns were appended, the two oldest of them are gone, and the
\* oldest turn held is not the same as the oldest turn that was dropped.
C12_Witness ==
    /\ Len(appended) = maxlen + 2
    /\ Len(CONVERSATION_HISTORY) = maxlen
    /\ CONVERSATION_HISTORY[1] = appended[3]
    /\ appended[1] /= appended[3]
    /\ appended[2] /= appended[3]

----------------------------------------------------------------------------
(* ask_llm of agent-test.py and agentcpp.py: at most two POSTs to the        *)
(* generator, a sleep of 3s between them.                                    *)

Agents == {"agent-test", "agentcpp"}

\* The characters of the texts a response may carry.
TextChars(s) ==
    CASE s = "" -> <<>>
      [] s = " " -> <<" ">>
      [] s = " ok\n" -> <<" ", "o", "k", "\n">>
      [] s = "ok" -> <<"o", "k">>
      [] s = "cmd" -> <<"c", "m", "d">>

\* What the try block ends with: an exception, or the text it returns.
Raises(exc) == [exc |-> exc, text |-> ""]
Returns(txt) == [exc |-> "", text |-> txt]

\* v.strip() of a JSON value: only a string has the method.
StripOf(v) ==
    IF v.t = "str" THEN Returns(Concat(Strip(TextChars(v.s)))) ELSE Raises("AttributeError")

\* data["choices"][0].get("text", "").strip() for a truthy data["choices"]
ChoicesText(choices) ==
    CASE choices.t = "list" ->
           IF IsDict(choices.l[1])
           THEN StripOf(GetOr(choices.l[1].m, "text", Str("")))
           ELSE Raises("AttributeError")
      [] choices.t = "str" -> Raises("AttributeError")
      [] choices.t = "obj" -> Raises("KeyError")
      [] OTHER -> Raises("TypeError")

\* The text the try block takes from the decoded body `data`.
TextOf(who, data) ==
    IF ~ IsDict(data) THEN Returns("")
    ELSE IF who = "agent-test" /\ Has(data.m, "response") THEN StripOf(Get(data.m, "response"))
    ELSE IF Has(data.m, "content") THEN StripOf(Get(data.m, "content"))
    ELSE IF Has(data.m, "choices") /\ Truthy(Get(data.m, "choices"))
    THEN ChoicesText(Get(data.m, "choices"))
    ELSE Returns("")

\* What may become of one POST: no connection, no answer within 90s, an
\* answer with a status that is not 2xx, an answer whose body is not JSON, or
\* a 2xx answer with a JSON body.
Bodies ==
    { Obj(<< <<"response", Str(" ok\n")>> >>),
      Obj(<< <<"response", Str("")>>, <<"content", Str("cmd")>> >>),
      Obj(<< <<"response", Null>> >>),
      Obj(<< <<"content", Str("cmd")>> >>),
      Obj(<< <<"content", Num("3")>> >>),
      Obj(<< <<"choices", List(<< Obj(<< <<"text", Str(" ok\n")>> >>) >>)>> >>),
      Obj(<< <<"choices", List(<< Obj(<< <<"text", Null>> >>) >>)>> >>),
      Obj(<< <<"choices", List(<< Obj(<<>>) >>)>> >>),
      Obj(<< <<"choices", List(<< Str("ok") >>)>> >>),
      Obj(<< <<"choices", List(<<>>)>> >>),
      Obj(<< <<"choices", Str("ok")>> >>),
      Obj(<< <<"choices", Obj(<< <<"text", Str("ok")>> >>)>> >>),
      Obj(<<>>),
      List(<<>>),
      Str(" ") }

PostOutcomes ==
    {[kind |-> f, data |-> Null] : f \in {"ConnectionError", "Timeout", "HTTPError", "ValueError"}}
       \cup {[kind |-> "ok", data |-> b] : b \in Bodies}

NoAnswer == [kind |-> "none", data |-> Null]

\* The try block of one round of the loop, for the outcome o of its POST.
TryBlock(who, o) == IF o.kind /= "ok" THEN Raises(o.kind) ELSE TextOf(who, o.data)

InitAsk ==
    /\ ExtractIdle /\ IntentIdle
    /\ idx = 0 /\ validation = NoValidation /\ obtained = NoneObtained
    /\ inflight = Null /\ result = Null /\ log = <<>> /\ live = <<>>
    /\ CacheIdle /\ HistoryIdle /\ PrintIdle /\ ServerIdle
    /\ cluster = InitCluster
    /\ agent \in Agents
    /\ attempt = 0 /\ wire = <<>> /\ llm_ret = Null
    /\ pc = "post"

AskFrame ==
    /\ UNCHANGED <<agent, idx, validation, obtained, inflight, result, log, live, cluster>>
    /\ UNCHANGED extractVars /\ UNCHANGED intentVars
    /\ UNCHANGED cacheVars /\ UNCHANGED historyVars
    /\ UNCHANGED printVars /\ UNCHANGED serverVars

\* A faulty variant of the round, against which the retry property is tested:
\* its handler is for the errors of the request only, and an error met while
\* reading the body leaves ask_llm.
PostCatchingRequestErrors ==
    /\ pc = "post"
    /\ \E o \in PostOutcomes :
       \E t \in {TryBlock(agent, o)} :
          /\ wire' = Append(wire, [ev |-> "post", attempt |-> attempt, answer |-> o,
                                 failed |-> t.exc /= ""])
          /\ IF t.exc = ""
             THEN llm_ret' = [raised |-> FALSE, value |-> Str(t.text)] /\ pc' = "returned"
             ELSE IF t.exc \in {"AttributeError", "KeyError", "TypeError"}
             THEN llm_ret' = [raised |-> TRUE, value |-> Null] /\ pc' = "returned"
             ELSE IF attempt = 0
             THEN llm_ret' = llm_ret /\ pc' = "sleep"
             ELSE llm_ret' = [raised |-> FALSE, value |-> Str("")] /\ pc' = "returned"
    /\ UNCHANGED attempt
    /\ AskFrame

\* One round of `for attempt in range(2)`: the POST and what follows it.  Any
\* exception of the try block is caught; on the first round the handler goes
\* to sleep, on the second it returns "".
Post ==
    /\ pc = "post"
    /\ \E o \in PostOutcomes :
       \E t \in {TryBlock(agent, o)} :
          /\ wire' = Append(wire, [ev |-> "post", attempt |-> attempt, answer |-> o,
                                 failed |-> t.exc /= ""])
          /\ IF t.exc = ""
             THEN llm_ret' = [raised |-> FALSE, value |-> Str(t.text)] /\ pc' = "returned"
             ELSE IF attempt = 0
             THEN llm_ret' = llm_ret /\ pc' = "sleep"
             ELSE llm_ret' = [raised |-> FALSE, value |-> Str("")] /\ pc' = "returned"
    /\ UNCHANGED attempt
    /\ AskFrame

\* time.sleep(3); continue
Sleep ==
    /\ pc = "sleep"
    /\ wire' = Append(wire, [ev |-> "sleep", attempt |-> attempt, answer |-> NoAnswer,
                             failed |-> FALSE])
    /\ attempt' = attempt + 1
    /\ pc' = "post"
    /\ UNCHANGED llm_ret
    /\ AskFrame

NextAsk ==
    \/ Post
    \/ Sleep

SpecAsk == InitAsk /\ [][NextAsk]_vars

Posts == {n \in 1..Len(wire) : wire[n].ev = "post"}

\* C13: one call of ask_llm sends at most two requests; a second request is
\* sent only after the first one failed and after the sleep that follows the
\* failure; the call ends by returning a string, the empty string when the
\* second request failed too, and never by raising.
C13_AtMostTwoRequests ==
    /\ Cardinality(Posts) <= 2
    /\ \A n \in Posts :
          n > 1 => /\ n = 3
                   /\ wire[1].ev = "post" /\ wire[1].attempt = 0 /\ wire[1].failed
                   /\ wire[2].ev = "sleep"
                   /\ wire[3].attempt = 1
    /\ pc = "returned" =>
          /\ ~ llm_ret.raised
          /\ llm_ret.value.t = "str"
          /\ wire[Len(wire)].ev = "post"
          /\ wire[Len(wire)].failed => Len(wire) = 3 /\ llm_ret.value = Str("")
    /\ pc /= "returned" => llm_ret = Null
    /\ wire /= <<>> /\ ~ wire[1].failed => pc = "returned" /\ Len(wire) = 1

\* Both requests failed, the first one while its body was read, and the call
\* returned the empty string.
C13_Witness ==
    /\ pc = "returned"
    /\ Len(wire) = 3
    /\ wire[1].answer.kind = "ok"
    /\ wire[3].failed
    /\ llm_ret = [raised |-> FALSE, value |-> Str("")]

\* The stripped texts a decoded body carries in `response`, in `content` and
\* in `choices[0].text`, in this order (a field that is absent or no text
\* carries none).
FieldTexts(data) ==
    LET textOf(v) == IF v.t = "str" THEN <<Concat(Strip(TextChars(v.s)))>> ELSE <<>>
        field(key) == IF Has(data.m, key) THEN textOf(Get(data.m, key)) ELSE <<>>
        choices == GetOr(data.m, "choices", Null)
    IN  field("response") \o field("content")
           \o (IF choices.t = "list" /\ choices.l /= <<>> /\ IsDict(choices.l[1])
                   /\ Has(choices.l[1].m, "text")
               THEN textOf(Get(choices.l[1].m, "text"))
               ELSE <<>>)

FirstNonEmpty(texts) ==
    LET filled == SelectSeq(texts, LAMBDA t : t /= "")
    IN  IF filled = <<>> THEN "" ELSE filled[1]

\* C23 as stated: a call that ends with a decoded response object returns the
\* first non-empty text among `response`, `content` and `choices[0].text`; an
\* empty field of higher priority does not hide a text of lower priority.
C23_FirstNonEmptyText ==
    (/\ pc = "returned"
     /\ wire[Len(wire)].ev = "post"
     /\ ~ wire[Len(wire)].failed
     /\ IsDict(wire[Len(wire)].answer.data))
       => llm_ret.value = Str(FirstNonEmpty(FieldTexts(wire[Len(wire)].answer.data)))

----------------------------------------------------------------------------
(* interpret_intent of agent-test.py and agentcpp.py: the same loop, with    *)
(* setdefault for the namespace.  These agents read a registry entry as the  *)
(* tool's signature itself, which is what GET /tools of server.py sends: per *)
(* tool the dict given to @register.                                         *)

tools_info ==
    [ list_pods |-> <<"namespace">>,
      list_nodes |-> <<>>,
      create_namespace |-> <<"name">>,
      restart_deployment |-> <<"deployment_name", "namespace">>,
      scale_deployment |-> <<"deployment_name", "replicas", "namespace">> ]

\* `tool in TOOLS_INFO` with the registry of server.py.
IsListedTool(tool) == tool.t = "str" /\ tool.s \in DOMAIN tools_info

\* signature = TOOLS_INFO.get(tool_name, {}); "namespace" in signature.
tool_requires_namespace_test(tool) ==
    IsListedTool(tool) /\ InList("namespace", tools_info[tool.s])

\* The body of the loop for one extracted object d, as NormalizeData gives it
\* for agent.py: data["args"].setdefault("namespace", "default") sets the key
\* only when the args do not have it.
NormalizeDataTest(d) ==
    IF ~ IsDict(d) \/ ~ Has(d.m, "tool")
    THEN [data |-> d, out |-> "skip"]
    ELSE LET m1 == IF ~ Has(d.m, "args") \/ ~ IsDict(Get(d.m, "args"))
                   THEN MapSet(d.m, "args", Obj(<<>>))
                   ELSE d.m
             tool == Get(m1, "tool")
             args == Get(m1, "args").m
             args2 == IF tool_requires_namespace_test(tool)
                      THEN IF ~ Has(args, "namespace")
                           THEN MapSet(args, "namespace", Str("default"))
                           ELSE args
                      ELSE MapPop(args, "namespace")
         IN  IF ~ IsHashable(tool)
             THEN [data |-> Obj(m1), out |-> "raise"]
             ELSE [data |-> Obj(MapSet(m1, "args", Obj(args2))),
                   out |-> IF IsListedTool(tool) THEN "append" ELSE "ignore"]

\* extract_json_objects has returned in one of the two agents; the loop starts.
InitIntentTest ==
    /\ ExtractIdle
    /\ raw \in IntentAnswers /\ extracted = raw
    /\ k = 0 /\ commands = <<>> /\ renorm = <<>>
    /\ pc = "intent" /\ idx = 0
    /\ validation = NoValidation /\ obtained = NoneObtained
    /\ inflight = Null /\ result = Null /\ log = <<>> /\ live = <<>>
    /\ CacheIdle /\ HistoryIdle /\ PrintIdle /\ ServerIdle
    /\ agent \in Agents /\ attempt = 0 /\ wire = <<>> /\ llm_ret = Null
    /\ cluster = InitCluster

\* for data in extracted: one round of the loop.
IntentStepTest ==
    /\ pc = "intent"
    /\ k < Len(extracted)
    /\ LET r == NormalizeDataTest(extracted[k + 1])
       IN  /\ extracted' = [extracted EXCEPT ![k + 1] = r.data]
           /\ commands' = IF r.out = "append" THEN Append(commands, r.data) ELSE commands
           /\ pc' = IF r.out = "raise" THEN "crashed" ELSE "intent"
    /\ k' = k + 1
    /\ UNCHANGED <<raw, renorm, idx, validation, obtained, inflight, result, log, cluster, live>>
    /\ UNCHANGED extractVars /\ UNCHANGED restVars

\* interpret_intent returns the commands (or [] when there is none).
IntentReturnTest ==
    /\ pc = "intent"
    /\ k = Len(extracted)
    /\ pc' = "returned"
    /\ UNCHANGED <<idx, validation, obtained, inflight, result, log, cluster, live>>
    /\ UNCHANGED extractVars /\ UNCHANGED intentVars /\ UNCHANGED restVars

NextIntentTest ==
    \/ IntentStepTest
    \/ IntentReturnTest

SpecIntentTest == InitIntentTest /\ [][NextIntentTest]_vars

\* An object names a listed tool that declares a namespace, and gives a
\* namespace that is empty: the empty string or null.
GivesEmptyNamespace(d) ==
    /\ IsDict(d) /\ Has(d.m, "tool")
    /\ tool_requires_namespace_test(Get(d.m, "tool"))
    /\ Has(GivenArgs(d), "namespace")
    /\ ~ Truthy(Get(GivenArgs(d), "namespace"))

\* C20 as stated: in agent-test.py and agentcpp.py too, a command for a tool
\* that declares a namespace and whose namespace is the empty string or null
\* leaves the loop with namespace "default", as agent.py leaves it.
C20_EmptyNamespaceDefaulted ==
    \A j \in 1..k :
       GivesEmptyNamespace(raw[j]) =>
          /\ Get(ArgsOf(extracted[j]), "namespace") = Str("default")
          /\ extracted[j] = NormalizeData(raw[j]).data

----------------------------------------------------------------------------
(* pretty_print of agent-test.py and agentcpp.py (the same function): the    *)
(* text run_agent prints for a result of call_mcp.                            *)

RECURSIVE JoinWith(_, _)
\* sep.join(texts)
JoinWith(texts, sep) ==
    IF texts = <<>> THEN ""
    ELSE IF Len(texts) = 1 THEN texts[1]
    ELSE texts[1] \o sep \o JoinWith(Tail(texts), sep)

RECURSIVE Dashes(_)
\* "-" * n
Dashes(n) == IF n = 0 THEN "" ELSE "-" \o Dashes(n - 1)

RECURSIVE PyRepr(_)
\* repr(v): what str() shows of a value inside a list or a dict.
PyRepr(v) ==
    CASE v.t = "str" -> "'" \o v.s \o "'"
      [] v.t = "num" -> v.s
      [] v.t = "null" -> "None"
      [] v.t = "list" -> "[" \o JoinWith([n \in 1..Len(v.l) |-> PyRepr(v.l[n])], ", ") \o "]"
      [] v.t = "obj" ->
           "{" \o JoinWith([n \in 1..Len(v.m) |->
                               "'" \o v.m[n][1] \o "': " \o PyRepr(v.m[n][2])], ", ") \o "}"

\* str(v), also what an f-string shows of v.
PyStr(v) == IF v.t = "str" THEN v.s ELSE PyRepr(v)

\* The table of a list whose first element is a dict.
Table(items) ==
    LET keys == Keys(items[1].m)
        header == JoinWith(keys, " | ")
        line == JoinWith([n \in 1..Len(keys) |-> Dashes(Len(keys[n]))], "-+-")
        row(item) == JoinWith([n \in 1..Len(keys) |-> PyStr(GetOr(item.m, keys[n], Str("")))],
                              " | ")
    IN  header \o "\n" \o line \o "\n"
           \o JoinWith([n \in 1..Len(items) |-> row(items[n])], "\n")

\* "\n".join(f"{k}: {v}" for k, v in data.items())
KeyValueLines(m) ==
    JoinWith([n \in 1..Len(m) |-> m[n][1] \o ": " \o PyStr(m[n][2])], "\n")

\* pretty_print(data): the text, or the exception that leaves it.  `.get` is
\* called on every element of the list, for every key of the first element; a
\* str, an int, None or a list has no such method.  The cross mark that
\* starts the error line is written [x].
pretty_print(data) ==
    IF IsDict(data) /\ Has(data.m, "error")
    THEN [raised |-> FALSE, text |-> "[x] Error: " \o PyStr(Get(data.m, "error"))]
    ELSE Bind(IF IsDict(data) /\ Has(data.m, "result") THEN Get(data.m, "result") ELSE data,
              LAMBDA d :
                 IF d.t = "list" /\ d.l /= <<>> /\ IsDict(d.l[1])
                 THEN IF Keys(d.l[1].m) /= <<>> /\ \E n \in 1..Len(d.l) : ~ IsDict(d.l[n])
                      THEN [raised |-> TRUE, text |-> "AttributeError"]
                      ELSE [raised |-> FALSE, text |-> Table(d.l)]
                 ELSE IF IsDict(d)
                 THEN [raised |-> FALSE, text |-> KeyValueLines(d.m)]
                 ELSE [raised |-> FALSE, text |-> PyStr(d)])

\* The results a tool endpoint may answer with.
PrintElements ==
    { Obj(<< <<"name", Str("web-1")>>, <<"status", Str("Running")>> >>),
      Obj(<< <<"name", Str("nginx")>> >>),
      Obj(<< <<"status", Null>>, <<"ip", Num("10")>> >>),
      Obj(<<>>),
      Str("web-1"),
      Num("3"),
      Null,
      List(<< Str("a") >>) }

PrintValues ==
    {List(l) : l \in SeqsUpTo(PrintElements, 2)}
       \cup PrintElements
       \cup { Obj(<< <<"error", Str("Tool 'x' not found")>> >>),
              Obj(<< <<"result", List(<< Obj(<< <<"name", Str("nginx")>> >>) >>)>> >>),
              Obj(<< <<"status", Str("success")>>,
                     <<"items", List(<< Str("a"), Num("3") >>)>> >>) }

\* call_mcp has returned `result` in one of the two agents.
InitPrint ==
    /\ ExtractIdle /\ IntentIdle
    /\ idx = 0 /\ validation = NoValidation /\ obtained = NoneObtained
    /\ inflight = Null /\ log = <<>> /\ live = <<>>
    /\ CacheIdle /\ HistoryIdle /\ PrintIdle /\ ServerIdle
    /\ attempt = 0 /\ wire = <<>> /\ llm_ret = Null
    /\ cluster = InitCluster
    /\ agent \in Agents
    /\ result \in PrintValues
    /\ pc = "print"

\* formatted = pretty_print(result); print(formatted).  Nothing in run_agent
\* catches an exception of pretty_print.
PrettyPrint ==
    /\ pc = "print"
    /\ printed' = pretty_print(result)
    /\ pc' = IF printed'.raised THEN "crashed" ELSE "printed"
    /\ UNCHANGED <<idx, validation, obtained, inflight, result, log, live, cluster>>
    /\ UNCHANGED extractVars /\ UNCHANGED intentVars
    /\ UNCHANGED cacheVars /\ UNCHANGED historyVars /\ UNCHANGED llmVars
    /\ UNCHANGED serverVars

NextPrint == PrettyPrint

SpecPrint == InitPrint /\ [][NextPrint]_vars

\* C24 as stated: pretty_print returns a text for every result: for a
\* non-empty list of objects the table (the first element's keys as headers,
\* a row per element, an empty cell for a key an element lacks), for an
\* object its key: value lines, and for every other value, a list that holds
\* something else than objects included, the value's literal text.
C24_RendersEveryValue ==
    pc \in {"printed", "crashed"} =>
       /\ ~ printed.raised
       /\ IF result.t = "list" /\ result.l /= <<>> /\ \A n \in 1..Len(result.l) : IsDict(result.l[n])
          THEN printed.text = Table(result.l)
          ELSE IF IsDict(result)
          THEN (~ Has(result.m, "error") /\ ~ Has(result.m, "result"))
                  => printed.text = KeyValueLines(result.m)
          ELSE printed.text = PyStr(result)

----------------------------------------------------------------------------
(* server.py with tools/*.py, validators.py and the cache of common.py.  A   *)
(* tool runs on a record st: the cache and the cluster as the tool leaves    *)
(* them, and what it did on the way: the calls it made to the cluster API    *)
(* that change something (apis), the prefixes it invalidated with the cache  *)
(* before and after each (inval), and the lists the cached helpers handed    *)
(* out with the cluster's list at that moment (lists).                        *)

\* The namespaces of the cluster the server runs on; one name starts with the
\* other.  A deployment "web" runs the pod "web-1".
ServerNamespaces == {"prod", "prod2"}
\* The namespaces requests name: those, one the cluster never has, and the
\* rendering of a missing one.
KeyNamespaces == ServerNamespaces \cup {"ghost", "None"}
Kinds == {"deployments", "pods", "services"}
ServerKeys == {"namespaces"} \cup {kind \o "::" \o n : kind \in Kinds, n \in KeyNamespaces}

\* k.startswith(prefix)
startswith(key, prefix) ==
    Len(prefix) <= Len(key) /\ SubSeq(key, 1, Len(prefix)) = prefix

\* A faulty variant of the invalidation, against which the property of the
\* changing tools is tested: it leaves the cache as it is.
_cache_invalidateKeeping(cache, prefix) == cache

_cache_invalidate(cache, prefix) ==
    [key \in DOMAIN cache |-> IF startswith(key, prefix) THEN <<>> ELSE cache[key]]

Invalidate(st, prefix) ==
    Bind(_cache_invalidate(st.cache, prefix), LAMBDA after :
         [st EXCEPT !.cache = after,
                    !.inval = Append(@, [prefix |-> prefix, before |-> st.cache,
                                         after |-> after])])

RECURSIVE InvalidateAll(_, _)
InvalidateAll(st, prefixes) ==
    IF prefixes = <<>> THEN st
    ELSE InvalidateAll(Invalidate(st, Head(prefixes)), Tail(prefixes))

\* The cluster's names of a kind in a namespace, in the order the API lists
\* them; none for a namespace the cluster does not have.
KindNames(cl, kind, n) ==
    IF n \notin cl.ns THEN {}
    ELSE CASE kind = "deployments" -> cl.deps[n]
           [] kind = "pods" -> cl.pods[n]
           [] kind = "services" -> cl.svcs[n]

\* list_namespaces_cached() and list_<kind>_cached(namespace), the cluster
\* answering.
CachedList(st, t, kind, namespace) ==
    LET key == IF kind = "namespaces" THEN kind ELSE kind \o "::" \o namespace
        actual == IF kind = "namespaces" THEN ListOf(st.cl.ns)
                  ELSE ListOf(KindNames(st.cl, kind, namespace))
    IN  Bind(list_cached(st.cache, key, actual, t, "ok"), LAMBDA r :
             [names |-> r.ret,
              st |-> [st EXCEPT !.cache = r.cache,
                                !.lists = Append(@, [key |-> key, hit |-> r.hit,
                                                     names |-> r.ret, actual |-> actual])]])

\* `value in names` for an argument value and a list of names.
Among(v, names) == v.t = "str" /\ InList(v.s, names)

\* What a validator returns: the error, or Null for None.  st.verdict keeps
\* the first error a validator of the call has returned.
Verdict(err, st) ==
    [err |-> err, st |-> [st EXCEPT !.verdict = IF @ /= Null THEN @ ELSE err]]

\* NamespaceValidator(namespace).validate()
NamespaceValidator(st, t, namespace) ==
    IF ~ Truthy(namespace)
    THEN Verdict(invalid_response("Missing namespace argument.", <<>>), st)
    ELSE Bind(CachedList(st, t, "namespaces", ""), LAMBDA ns :
              Verdict(IF ~ Among(namespace, ns.names)
                      THEN invalid_response("Namespace '" \o Fmt(namespace)
                                              \o "' does not exist.", ns.names)
                      ELSE Null, ns.st))

\* DeploymentValidator, ServiceValidator and PodValidator: the namespace
\* check, then the name against the cached names of the kind.
ResourceValidator(st, t, kind, label, word, namespace, name) ==
    Bind(NamespaceValidator(st, t, namespace), LAMBDA base :
         IF base.err /= Null THEN base
         ELSE IF ~ Truthy(name)
         THEN Verdict(invalid_response("Missing " \o word \o " name argument.", <<>>),
                      base.st)
         ELSE Bind(CachedList(base.st, t, kind, Fmt(namespace)), LAMBDA found :
                   Verdict(IF ~ Among(name, found.names)
                           THEN invalid_response(label \o " '" \o Fmt(name)
                                                   \o "' not found in namespace '"
                                                   \o Fmt(namespace) \o "'.", found.names)
                           ELSE Null, found.st)))

\* A call of the cluster API that changes the cluster.
Api(st, api) == [st EXCEPT !.apis = Append(@, api)]

Done(ret, st) == [ret |-> ret, st |-> st, raised |-> FALSE]
Status(status, msg) == Obj(<< <<"status", Str(status)>>, <<"message", Str(msg)>> >>)

\* A faulty variant of the guard, against which the validator property is
\* tested: the tool goes on whatever the validator returned.
GuardIgnoringValidator(v, r) == r

\* validation_error = validator.validate(); if validation_error: return it.
\* r is the rest of the tool.
Guard(v, r) == IF v.err /= Null THEN Done(v.err, v.st) ELSE r

\* The cluster with the names S of a kind in namespace n.
WithNames(cl, kind, n, S) ==
    IF n \notin DOMAIN cl.deps THEN cl
    ELSE CASE kind = "deployments" -> [cl EXCEPT !.deps[n] = S]
           [] kind = "pods" -> [cl EXCEPT !.pods[n] = S]
           [] kind = "services" -> [cl EXCEPT !.svcs[n] = S]

\* The pod a deployment runs.
PodOf(name) == name \o "-1"

\* The try block of a tool that changes the cluster: the API call `api`; when
\* the cluster accepts it the cluster becomes cl2, the prefixes are
\* invalidated and the tool returns ok; refused is what the handler returns
\* for the status the cluster refuses the call with (0 when it accepts).
Attempt(st, api, apiOk, status, cl2, prefixes, ok, refused) ==
    IF ~ apiOk THEN Done(ApiError, Api(st, api))
    ELSE IF status /= 0 THEN refused
    ELSE Done(ok, InvalidateAll([Api(st, api) EXCEPT !.cl = cl2], prefixes))

\* except ApiException, status 404: invalid_response(msg, list_<kind>_cached(namespace))
NotFound(st, t, api, kind, namespace, msg) ==
    Bind(CachedList(Api(st, api), t, kind, namespace), LAMBDA l :
         Done(invalid_response(msg, l.names), l.st))

\* The tools of tools/*.py, called with the args dict `args`; a parameter the
\* dict lacks has its default (None where the function gives none and the
\* requests of this model always pass it).
ServerTool(tool, args, st, t, apiOk) ==
    LET namespace == GetOr(args, "namespace", Null)
        n == Fmt(namespace)
        name == IF tool = "delete_deployment"
                THEN (IF Truthy(GetOr(args, "name", Null)) THEN Get(args, "name")
                      ELSE GetOr(args, "deployment_name", Null))
                ELSE IF tool \in {"scale_deployment", "restart_deployment", "create_autoscaler"}
                THEN GetOr(args, "deployment_name", Null)
                ELSE IF tool = "restart_pod" THEN GetOr(args, "pod_name", Null)
                ELSE GetOr(args, "name", Null)
        d == Fmt(name)
        deps == KindNames(st.cl, "deployments", n)
        pods == KindNames(st.cl, "pods", n)
        svcs == KindNames(st.cl, "services", n)
    IN
    CASE tool = "create_namespace" ->
           IF ~ Truthy(name) THEN Done(invalid_response("Namespace name is required.", <<>>), st)
           ELSE Attempt(st, "create_namespace", apiOk, IF d \in st.cl.ns THEN 409 ELSE 0,
                        [st.cl EXCEPT !.ns = @ \cup ({d} \cap DOMAIN st.cl.deps)],
                        <<"namespaces">>,
                        Status("success", "Namespace '" \o d \o "' created successfully."),
                        Done(Status("exists", "Namespace '" \o d \o "' already exists."),
                             Api(st, "create_namespace")))
      [] tool = "delete_namespace" ->
           Bind(NamespaceValidator(st, t, namespace), LAMBDA v :
                Guard(v, Attempt(v.st, "delete_namespace", apiOk,
                                 IF n \in v.st.cl.ns THEN 0 ELSE 404,
                                 WithNames(WithNames(WithNames(
                                     [v.st.cl EXCEPT !.ns = @ \ {n}],
                                     "deployments", n, {}), "pods", n, {}), "services", n, {}),
                                 <<"namespaces", "deployments::", "pods::", "services::">>,
                                 Status("success", "Namespace '" \o n \o "' deleted successfully."),
                                 Done(invalid_response("Namespace '" \o n \o "' not found.", <<>>),
                                      Api(v.st, "delete_namespace")))))
      [] tool = "list_namespaces" ->
           IF ~ apiOk THEN Done(ApiError, st)
           ELSE Done(Listing(ListOf(st.cl.ns), << <<"status", Str("Active")>> >>),
                     [st EXCEPT !.cache = _cache_set(@, "namespaces", ListOf(st.cl.ns), t)])
      [] tool = "list_deployments" ->
           Bind(NamespaceValidator(st, t, namespace), LAMBDA v :
                Guard(v, IF ~ apiOk THEN Done(ApiError, v.st)
                         ELSE Done(Listing(ListOf(KindNames(v.st.cl, "deployments", n)),
                                           << <<"namespace", Str(n)>> >>), v.st)))
      [] tool = "create_deployment" ->
           Bind(NamespaceValidator(st, t, namespace), LAMBDA v :
                Guard(v, Attempt(v.st, "create_namespaced_deployment", apiOk,
                                 IF n \notin v.st.cl.ns THEN 404 ELSE IF d \in deps THEN 409 ELSE 0,
                                 WithNames(WithNames(v.st.cl, "deployments", n, deps \cup {d}),
                                           "pods", n, pods \cup {PodOf(d)}),
                                 <<"deployments::" \o n>>,
                                 Status("success", "Deployment '" \o d \o "' created in '"
                                                     \o n \o "'."),
                                 Done(IF n \in v.st.cl.ns
                                      THEN Status("exists", "Deployment '" \o d
                                                    \o "' already exists in '" \o n \o "'.")
                                      ELSE ApiError,
                                      Api(v.st, "create_namespaced_deployment")))))
      [] tool = "delete_deployment" ->
           IF ~ Truthy(name) THEN Done(Status("error", "Missing deployment name."), st)
           ELSE Bind(ResourceValidator(st, t, "deployments", "Deployment", "deployment",
                                       namespace, name), LAMBDA v :
                Guard(v, Attempt(v.st, "delete_namespaced_deployment", apiOk,
                                 IF d \in deps THEN 0 ELSE 404,
                                 WithNames(WithNames(v.st.cl, "deployments", n, deps \ {d}),
                                           "pods", n, pods \ {PodOf(d)}),
                                 <<"deployments::" \o n, "pods::" \o n>>,
                                 Status("success", "Deployment '" \o d
                                          \o "' deleted successfully from '" \o n \o "'."),
                                 NotFound(v.st, t, "delete_namespaced_deployment", "deployments", n,
                                          "Deployment '" \o d \o "' not found in namespace '"
                                             \o n \o "'."))))
      [] tool = "restart_deployment" ->
           Bind(ResourceValidator(st, t, "deployments", "Deployment", "deployment",
                                  namespace, name), LAMBDA v :
                Guard(v, Attempt(v.st, "patch_namespaced_deployment", apiOk,
                                 IF d \in deps THEN 0 ELSE 404,
                                 v.st.cl,
                                 <<"deployments::" \o n, "pods::" \o n>>,
                                 Status("success", "Deployment '" \o d
                                          \o "' restarted successfully in '" \o n \o "'."),
                                 Done(ApiError, Api(v.st, "patch_namespaced_deployment")))))
      [] tool = "scale_deployment" ->
           Bind(ResourceValidator(st, t, "deployments", "Deployment", "deployment",
                                  namespace, name), LAMBDA v :
                Guard(v, LET replicas == GetOr(args, "replicas", Null)
                         IN  IF ~ IsInt(replicas)
                             THEN Done(invalid_response("Replicas must be an integer", <<>>), v.st)
                             ELSE IF replicas.s = "-1"
                             THEN Done(invalid_response("Replicas must be >= 0", <<>>), v.st)
                             ELSE Attempt(v.st, "patch_namespaced_deployment_scale", apiOk,
                                          IF d \in deps THEN 0 ELSE 404,
                                          WithNames(v.st.cl, "pods", n,
                                                    IF replicas.s = "0" THEN pods \ {PodOf(d)}
                                                    ELSE pods \cup {PodOf(d)}),
                                          <<"deployments::" \o n>>,
                                          Status("success", "Deployment '" \o d \o "' scaled to "
                                                   \o replicas.s \o " in '" \o n \o "'."),
                                          Done(ApiError,
                                               Api(v.st, "patch_namespaced_deployment_scale")))))
      [] tool = "create_autoscaler" ->
           Bind(ResourceValidator(st, t, "deployments", "Deployment", "deployment",
                                  namespace, name), LAMBDA v :
                Guard(v, Attempt(v.st, "create_namespaced_horizontal_pod_autoscaler", apiOk,
                                 IF d \in deps THEN 0 ELSE 404,
                                 v.st.cl, <<>>,
                                 Status("success", "Autoscaler for '" \o d \o "' created."),
                                 Done(ApiError,
                                      Api(v.st, "create_namespaced_horizontal_pod_autoscaler")))))
      [] tool = "delete_pod" ->
           Bind(ResourceValidator(st, t, "pods", "Pod", "pod", namespace, name), LAMBDA v :
                Guard(v, Attempt(v.st, "delete_namespaced_pod", apiOk,
                                 IF d \in pods THEN 0 ELSE 404,
                                 WithNames(v.st.cl, "pods", n, pods \ {d}),
                                 <<"pods::" \o n>>,
                                 Status("success", "Pod '" \o d \o "' deleted successfully from '"
                                          \o n \o "'."),
                                 NotFound(v.st, t, "delete_namespaced_pod", "pods", n,
                                          "Pod '" \o d \o "' not found in '" \o n \o "'."))))
      [] tool = "restart_pod" ->
           Bind(ResourceValidator(st, t, "pods", "Pod", "pod", namespace, name), LAMBDA v :
                Guard(v, IF apiOk /\ d \notin pods
                         THEN Bind(CachedList(v.st, t, "pods", n), LAMBDA l :
                                   Done(invalid_response("Pod '" \o d \o "' not found in '"
                                                           \o n \o "'.", l.names), l.st))
                         ELSE IF ~ apiOk THEN Done(ApiError, v.st)
                         ELSE Done(IF \E w \in deps : PodOf(w) = d
                                   THEN Status("success", "Pod '" \o d
                                                 \o "' deleted for restart; controller will recreate it.")
                                   ELSE Status("warning", "Pod '" \o d
                                                 \o "' deleted manually; not managed by controller, must recreate manually."),
                                   Invalidate([Api(v.st, "delete_namespaced_pod")
                                                 EXCEPT !.cl = WithNames(v.st.cl, "pods", n, pods \ {d})],
                                              "pods::" \o n))))
      [] tool = "create_service" ->
           Bind(NamespaceValidator(st, t, namespace), LAMBDA v0 :
           Guard(v0,
           Bind(ResourceValidator(v0.st, t, "deployments", "Deployment", "deployment", namespace,
                                  GetOr(args, "deployment_name", Null)), LAMBDA v :
                Guard(v, IF ~ IsInt(GetOr(args, "port", Null))
                         THEN Done(invalid_response("Port and target_port must be integers.", <<>>),
                                   v.st)
                         ELSE Attempt(v.st, "create_namespaced_service", apiOk,
                                      IF d \in svcs THEN 409 ELSE 0,
                                      WithNames(v.st.cl, "services", n, svcs \cup {d}),
                                      <<"services::" \o n>>,
                                      Status("success", "Service '" \o d \o "' created in '"
                                               \o n \o "' as type 'ClusterIP'."),
                                      Done(Status("exists", "Service '" \o d
                                                    \o "' already exists in '" \o n \o "'."),
                                           Api(v.st, "create_namespaced_service")))))))
      [] tool = "delete_service" ->
           Bind(ResourceValidator(st, t, "services", "Service", "service", namespace, name),
                LAMBDA v :
                Guard(v, Attempt(v.st, "delete_namespaced_service", apiOk,
                                 IF d \in svcs THEN 0 ELSE 404,
                                 WithNames(v.st.cl, "services", n, svcs \ {d}),
                                 <<"services::" \o n>>,
                                 Status("success", "Service '" \o d
                                          \o "' deleted successfully from '" \o n \o "'."),
                                 NotFound(v.st, t, "delete_namespaced_service", "services", n,
                                          "Service '" \o d \o "' not found in '" \o n \o "'."))))
      [] tool = "apply_yaml" ->
           \* the manifest: a Deployment "web" in namespace "prod"
           IF ~ Truthy(GetOr(args, "yaml_content", Null)) /\ ~ Truthy(GetOr(args, "yaml_path", Null))
           THEN Done(invalid_response("Either 'yaml_content' or 'yaml_path' must be provided.",
                                      <<>>), st)
           ELSE IF ~ apiOk \/ "prod" \notin st.cl.ns \/ "web" \in st.cl.deps["prod"]
           THEN Done(ApiError, Api(st, "create_from_yaml"))
           ELSE Done(Status("success", "Applied manifests from yaml/generated.yaml"),
                     InvalidateAll([Api(st, "create_from_yaml")
                                      EXCEPT !.cl = WithNames(WithNames(st.cl, "deployments", "prod",
                                                                        st.cl.deps["prod"] \cup {"web"}),
                                                              "pods", "prod",
                                                              st.cl.pods["prod"] \cup {"web-1"})],
                                   <<"deployments::", "pods::", "services::", "namespaces">>))

\* The parameters of the tool functions: all of them, and those without a
\* default value.
ServerParams ==
    [ create_namespace |-> [all |-> {"name"}, required |-> {"name"}],
      delete_namespace |-> [all |-> {"namespace"}, required |-> {"namespace"}],
      list_namespaces |-> [all |-> {}, required |-> {}],
      list_deployments |-> [all |-> {"namespace"}, required |-> {"namespace"}],
      create_deployment |-> [all |-> {"namespace", "name", "image", "replicas", "port"},
                             required |-> {"namespace", "name", "image"}],
      delete_deployment |-> [all |-> {"name", "namespace", "deployment_name"}, required |-> {}],
      restart_deployment |-> [all |-> {"deployment_name", "namespace"},
                              required |-> {"deployment_name", "namespace"}],
      scale_deployment |-> [all |-> {"deployment_name", "replicas", "namespace"},
                            required |-> {"deployment_name", "replicas", "namespace"}],
      create_autoscaler |-> [all |-> {"namespace", "deployment_name", "min_replicas",
                                      "max_replicas", "cpu_percent"},
                             required |-> {"namespace", "deployment_name", "min_replicas",
                                           "max_replicas", "cpu_percent"}],
      delete_pod |-> [all |-> {"name", "namespace"}, required |-> {"name", "namespace"}],
      restart_pod |-> [all |-> {"pod_name", "namespace"}, required |-> {"pod_name", "namespace"}],
      create_service |-> [all |-> {"namespace", "name", "deployment_name", "port",
                                   "target_port", "service_type", "node_port"},
                          required |-> {"namespace", "name", "deployment_name", "port"}],
      delete_service |-> [all |-> {"name", "namespace"}, required |-> {"name", "namespace"}],
      apply_yaml |-> [all |-> {"yaml_content", "yaml_path", "filename"}, required |-> {}] ]

\* tools_dict
ServerTools == DOMAIN ServerParams

\* self._send_response(code, data): the status and the body written, no body
\* for a falsy data.  A body is the JSON document of the data; encoding and
\* decoding a value made of strings, numbers, null, lists and objects gives
\* the value back, so the document stands for both.
_send_response(code, data) ==
    [status |-> code, body |-> IF Truthy(data) THEN <<data>> ELSE <<>>]

ErrorObj(msg) == Obj(<< <<"error", Str(msg)>> >>)

\* What the tool did, for a request that reached no tool.
NotRun(st) == [ret |-> Null, st |-> st, raised |-> FALSE, ran |-> FALSE]

\* do_POST of server.py for the request req = [path, json, tool, args]: the response, and
\* what the tool did.
ServerPost(req, st, t, apiOk) ==
    IF req.path /= "/run"
    THEN [response |-> _send_response(404, ErrorObj("Not found")), run |-> NotRun(st)]
    ELSE IF ~ req.json
    THEN [response |-> _send_response(400, ErrorObj("Invalid JSON: ...")), run |-> NotRun(st)]
    ELSE IF req.tool = "" \/ req.tool \notin ServerTools
    THEN [response |-> _send_response(400, ErrorObj("Tool '" \o req.tool \o "' not found")),
          run |-> NotRun(st)]
    ELSE IF ~ (/\ \A n \in 1..Len(req.args) : req.args[n][1] \in ServerParams[req.tool].all
               /\ \A q \in ServerParams[req.tool].required : Has(req.args, q))
    THEN \* tools_dict[tool_name](**args) raises TypeError
         [response |-> _send_response(500, Obj(<< <<"error", Str("TypeError")>>,
                                                  <<"trace", Str("Traceback ...")>> >>)),
          run |-> [ret |-> Null, st |-> st, raised |-> TRUE, ran |-> TRUE]]
    ELSE Bind(ServerTool(req.tool, req.args, st, t, apiOk), LAMBDA r :
              [response |-> _send_response(200, r.ret),
               run |-> [ret |-> r.ret, st |-> r.st, raised |-> FALSE, ran |-> TRUE]])

\* What call_mcp returns for the response: raise_for_status() and r.json() inside the try,
\* any exception turned into an error object.
Received(response) ==
    IF response.status >= 400 THEN ErrorObj("HTTPError")
    ELSE IF response.body = <<>> THEN ErrorObj("Expecting value: line 1 column 1 (char 0)")
    ELSE response.body[1]

\* The requests: the tools with the arguments the agents send, namespaces and
\* names the cluster has and has not, and requests the server refuses.
Args2(a, x, b, y) == << <<a, Str(x)>>, <<b, Str(y)>> >>
Run(tool, args) == [path |-> "/run", json |-> TRUE, tool |-> tool, args |-> args]
ServerRequests ==
    {Run("create_namespace", << <<"name", Str(x)>> >>) : x \in {"prod", "prod2", ""}}
      \cup {Run("delete_namespace", << <<"namespace", Str(x)>> >>) : x \in {"prod2", "ghost"}}
      \cup {Run("list_namespaces", <<>>)}
      \cup {Run("list_deployments", << <<"namespace", Str("prod")>> >>)}
      \cup {Run("create_deployment", Args2("namespace", x, "name", "web")
                                        \o << <<"image", Str("nginx")>> >>) :
               x \in {"prod", "ghost"}}
      \cup {Run("delete_deployment", Args2("namespace", x, "name", y)) :
               x \in {"prod", "prod2", "ghost"}, y \in {"web", "ghost"}}
      \cup {Run("delete_deployment", << <<"namespace", Str("prod")>> >>)}
      \cup {Run("restart_deployment", Args2("namespace", "prod", "deployment_name", "web"))}
      \cup {Run("scale_deployment", Args2("namespace", "prod", "deployment_name", "web")
                                       \o << <<"replicas", z>> >>) :
               z \in {Num("0"), Num("2"), Num("-1"), Str("many")}}
      \cup {Run("scale_deployment", Args2("namespace", "prod", "deployment_name", "ghost")
                                       \o << <<"replicas", Num("0")>> >>)}
      \cup {Run("create_autoscaler", Args2("namespace", "prod", "deployment_name", "web")
                                        \o << <<"min_replicas", Num("1")>>,
                                              <<"max_replicas", Num("3")>>,
                                              <<"cpu_percent", Num("2")>> >>)}
      \cup {Run("delete_pod", Args2("namespace", "prod", "name", y)) : y \in {"web-1", "ghost"}}
      \cup {Run("restart_pod", Args2("namespace", "prod", "pod_name", "web-1"))}
      \cup {Run("create_service", Args2("namespace", "prod", "name", "web")
                                     \o << <<"deployment_name", Str(y)>>, <<"port", Num("2")>> >>) :
               y \in {"web", "ghost"}}
      \cup {Run("delete_service", Args2("namespace", "prod", "name", "web"))}
      \cup {Run("apply_yaml", << <<"yaml_content", Str("kind: Deployment")>> >>),
            Run("apply_yaml", <<>>),
            Run("scale_deployment", << <<"namespace", Str("prod")>> >>),
            Run("get_everything", <<>>),
            [path |-> "/tools", json |-> TRUE, tool |-> "list_namespaces", args |-> <<>>],
            [path |-> "/run", json |-> FALSE, tool |-> "", args |-> <<>>]}

\* The cluster the server starts on: a deployment "web" with its pod in both
\* namespaces, no service.
ServerCluster ==
    [ns |-> ServerNamespaces,
     deps |-> [n \in ServerNamespaces |-> {"web"}],
     pods |-> [n \in ServerNamespaces |-> {"web-1"}],
     svcs |-> [n \in ServerNamespaces |-> {}]]

MaxCalls == 2
MaxServerNow == _CACHE_TTL + 1

InitServer ==
    /\ ExtractIdle /\ IntentIdle /\ ReplIdle
    /\ HistoryIdle /\ LlmIdle /\ PrintIdle
    /\ _CACHE = [key \in ServerKeys |-> <<>>]
    /\ now = 0
    /\ served = NotServed
    /\ cluster = ServerCluster
    /\ call = [n |-> 0, tool |-> ""]
    /\ external = FALSE

ServerFrame ==
    /\ UNCHANGED served
    /\ UNCHANGED extractVars /\ UNCHANGED intentVars /\ UNCHANGED replVars
    /\ UNCHANGED historyVars /\ UNCHANGED llmVars /\ UNCHANGED printVars

\* One POST, handled to the end; `call` keeps the request, what the tool
\* did, the response and what call_mcp returns for it.
PostRun ==
    /\ call.n < MaxCalls
    /\ \E req \in ServerRequests, apiOk \in BOOLEAN :
          \E r \in {ServerPost(req, [cache |-> _CACHE, cl |-> cluster, apis |-> <<>>,
                                   inval |-> <<>>, lists |-> <<>>, verdict |-> Null],
                                now, apiOk)} :
             /\ call' = [n |-> call.n + 1, tool |-> req.tool, args |-> req.args,
                         path |-> req.path, ran |-> r.run.ran, raised |-> r.run.raised,
                         ret |-> r.run.ret, verdict |-> r.run.st.verdict,
                         apis |-> r.run.st.apis, inval |-> r.run.st.inval,
                         lists |-> r.run.st.lists, before |-> cluster,
                         response |-> r.response, received |-> Received(r.response)]
             /\ _CACHE' = r.run.st.cache
             /\ cluster' = r.run.st.cl
    /\ UNCHANGED <<now, external>>
    /\ ServerFrame

\* The cached entries outlive their TTL.
Wait ==
    /\ now + _CACHE_TTL + 1 <= MaxServerNow
    /\ now' = now + _CACHE_TTL + 1
    /\ UNCHANGED <<_CACHE, cluster, call, external>>
    /\ ServerFrame

\* Somebody else removes a resource from the cluster (kubectl delete); a
\* deployment goes with its pod.  One such removal is followed.
ExternalRemoval ==
    /\ ~ external
    /\ \E kind \in Kinds, n \in cluster.ns :
          \E x \in KindNames(cluster, kind, n) :
             cluster' = IF kind = "deployments"
                        THEN WithNames(WithNames(cluster, kind, n, cluster.deps[n] \ {x}),
                                       "pods", n, cluster.pods[n] \ {PodOf(x)})
                        ELSE WithNames(cluster, kind, n, KindNames(cluster, kind, n) \ {x})
    /\ external' = TRUE
    /\ UNCHANGED <<_CACHE, now, call>>
    /\ ServerFrame

NextServer == PostRun \/ Wait \/ ExternalRemoval
SpecServer == InitServer /\ [][NextServer]_vars

----------------------------------------------------------------------------
(* Properties of the server (SpecServer)                                    *)

\* A request has been handled, and a tool function ran for it to its return.
Handled == "ran" \in DOMAIN call
Returned200 == Handled /\ call.ran /\ ~ call.raised

\* C28: _cache_invalidate called for a kind and a namespace X
\* ("deployments::X") removes only the entry of that kind for X: the entries
\* of every other namespace, one whose name starts with X included, and of
\* every other kind stay as they were.
C28_InvalidateRemovesOnlyItsEntry ==
    Handled =>
       \A m \in 1..Len(call.inval) :
          call.inval[m].prefix \in ServerKeys \ {"namespaces"} =>
             \A key \in ServerKeys \ {call.inval[m].prefix} :
                call.inval[m].after[key] = call.inval[m].before[key]

\* The tools that change the cluster and invalidate, and the cache key of
\* the kind and namespace a call of one changes: the kind the tool is named
\* after, in the namespace of the request (apply_yaml: of the manifest).
MutatingTools ==
    {"create_namespace", "delete_namespace", "create_deployment", "delete_deployment",
     "scale_deployment", "restart_deployment", "delete_pod", "restart_pod",
     "create_service", "delete_service", "apply_yaml"}
MutatedKey ==
    CASE call.tool \in {"create_namespace", "delete_namespace"} -> "namespaces"
      [] call.tool = "apply_yaml" -> "deployments::prod"
      [] call.tool \in {"delete_pod", "restart_pod"} ->
           "pods::" \o Fmt(GetOr(call.args, "namespace", Null))
      [] call.tool \in {"create_service", "delete_service"} ->
           "services::" \o Fmt(GetOr(call.args, "namespace", Null))
      [] OTHER -> "deployments::" \o Fmt(GetOr(call.args, "namespace", Null))

\* The last request was a call of a changing tool that succeeded.
Succeeded ==
    /\ Returned200
    /\ call.tool \in MutatingTools
    /\ IsDict(call.ret) /\ Has(call.ret.m, "status")
    /\ Get(call.ret.m, "status") \in {Str("success"), Str("warning")}

\* C22: after every successful call of a changing tool the name cache holds
\* no entry for the kind and namespace the call changed, so the next cached
\* listing of that kind and namespace asks the cluster.
C22_NoEntryAfterMutation ==
    Succeeded =>
       /\ _CACHE[MutatedKey] = <<>>
       /\ ~ list_cached(_CACHE, MutatedKey, <<>>, now, "ok").hit

\* A changing tool succeeded, and the entry it had to remove was there.
C22_Witness ==
    /\ Succeeded
    /\ \E m \in 1..Len(call.inval) :
          /\ call.inval[m].before[MutatedKey] /= <<>>
          /\ call.inval[m].after[MutatedKey] = <<>>
    /\ ~ list_cached(_CACHE, MutatedKey, <<>>, now, "ok").hit

\* The tools that start with a validator.
GuardedTools ==
    {"delete_namespace", "create_deployment", "delete_deployment", "scale_deployment",
     "restart_deployment", "delete_pod", "restart_pod", "create_service", "delete_service",
     "create_autoscaler"}

\* The last request ran a guarded tool whose validator returned an error.
ValidatorRefused == Returned200 /\ call.tool \in GuardedTools /\ call.verdict /= Null

\* The last request ran scale_deployment with replicas negative or no integer.
BadReplicas ==
    /\ Returned200 /\ call.tool = "scale_deployment"
    /\ \E v \in {GetOr(call.args, "replicas", Null)} : ~ IsInt(v) \/ v.s = "-1"

C26_WitnessReplicas ==
    /\ BadReplicas /\ call.verdict = Null
    /\ call.ret = invalid_response("Replicas must be an integer", <<>>)

\* The list the cluster has for a cache key.
ClusterList(key) ==
    IF key = "namespaces" THEN ListOf(cluster.ns)
    ELSE CHOOSE names \in {ListOf(KindNames(cluster, kind, n)) : kind \in Kinds,
                                                                  n \in KeyNamespaces} :
            \E kind \in Kinds, n \in KeyNamespaces :
               key = kind \o "::" \o n /\ names = ListOf(KindNames(cluster, kind, n))

\* C27: when the cluster is changed through the tools of the server only,
\* every name list served from the cache equals the list the cluster has for
\* that kind and namespace when it is served: the lists the last call was
\* served were current, and no call leaves a list in the cache that a cached
\* listing would now serve and that differs from the cluster.
C27_CachedListsAreCurrent ==
    (Handled /\ ~ external) =>
       /\ \A m \in 1..Len(call.lists) :
             call.lists[m].hit => call.lists[m].names = call.lists[m].actual
       /\ \A key \in ServerKeys :
             \E r \in {list_cached(_CACHE, key, ClusterList(key), now, "ok")} :
                r.hit => r.ret = ClusterList(key)

\* C30: a not-found rejection that carries a suggestion list does not list
\* the rejected name, also when the resource was removed from the cluster
\* after its names were cached and the API call of the tool returned 404.
C30_SuggestionLacksRejectedName ==
    \A kind \in {"Deployment", "Pod", "Service"}, x \in {"web", "web-1", "ghost"},
       n \in KeyNamespaces, names \in {<<"web">>, <<"web-1">>} :
          Returned200 =>
             /\ call.ret /= invalid_response(kind \o " '" \o x \o "' not found in namespace '"
                                                \o n \o "'.", names) \/ ~ InList(x, names)
             /\ call.ret /= invalid_response(kind \o " '" \o x \o "' not found in '"
                                                \o n \o "'.", names) \/ ~ InList(x, names)

\* C25: for every registered tool and every value it returns without
\* raising, an empty list or object included, the body of the response to
\* POST /run is the JSON document of that value, and call_mcp returns the
\* value of the tool, no error object of its own.
C25_BodyIsTheResult ==
    Returned200 =>
       /\ call.response.status = 200
       /\ call.response.body = <<call.ret>>
       /\ call.received = call.ret

====
